---- MODULE Spec2Model ----
(***************************************************************************)
(* Verification model of ollama-ai-studio: the streaming send handler of   *)
(* App.tsx (stream decoding, <think> splitting, token accounting,          *)
(* cancellation) and the offline queue of the useNetworkStatus hook.       *)
(*                                                                         *)
(* Text is modelled as a sequence of atoms (a JavaScript string is the     *)
(* concatenation of its atoms).  Content text uses one atom per character; *)
(* fixed literals of the source that no code looks into (the "data: "      *)
(* prefix, the stop marker, JSON field tokens) are one atom each.          *)
(***************************************************************************)
EXTENDS Integers, Sequences, FiniteSets, TLC

(***************************************************************************)
(* Bounds of the model.                                                    *)
(***************************************************************************)
MaxCuts == 2          \* cut points used to split a text into chunks / fragments
MaxItems == 1         \* messages ever put on the offline queue
MaxOrphans == 0       \* pending retry calls whose modal has been closed
MaxEvents == 1        \* retry events counted per queued message (the count saturates)
MaxExchanges == 1     \* sends (exchanges) started in one run
MaxLoads == 1         \* reads of the message store waiting for their result, per kind
MaxDrainItems == 2    \* messages in the saved queue when a drain of several items starts
MaxResends == 1       \* sends made after the first ones have been stopped
MaxWorkerItems == 3   \* messages ever put on the service worker's queue
MaxSyncs == 3         \* sync events the service worker handles
MaxDeletes == 2       \* conversations the user deletes

(***************************************************************************)
(* Text helpers (String.prototype.indexOf / substring / split).            *)
(***************************************************************************)
\* s.indexOf(pat), 1-based; 0 stands for JavaScript's -1
IndexOf(s, pat) ==
  LET hits == {i \in 1..(Len(s) - Len(pat) + 1) : SubSeq(s, i, i + Len(pat) - 1) = pat}
  IN IF hits = {} THEN 0 ELSE CHOOSE i \in hits : \A j \in hits : i <= j

\* s.substring(i) with a 1-based start
From(s, i) == SubSeq(s, i, Len(s))

RECURSIVE Concat(_)
\* the concatenation of a sequence of texts
Concat(ss) == IF ss = <<>> THEN <<>> ELSE Head(ss) \o Concat(Tail(ss))

RECURSIVE SplitOn(_, _)
\* s.split(sep) for a one-atom separator: the pieces between separators
SplitOn(s, sep) ==
  LET hits == {i \in 1..Len(s) : s[i] = sep}
  IN IF hits = {} THEN <<s>>
     ELSE LET i == CHOOSE k \in hits : \A j \in hits : k <= j
          IN <<SubSeq(s, 1, i - 1)>> \o SplitOn(From(s, i + 1), sep)

\* the pieces of s when cut after the positions in cuts (cuts \subseteq 1..Len(s)-1)
RECURSIVE CutAt(_, _)
CutAt(s, cuts) ==
  IF cuts = {} THEN <<s>>
  ELSE LET c == CHOOSE k \in cuts : \A j \in cuts : k <= j
       IN <<SubSeq(s, 1, c)>> \o CutAt(From(s, c + 1), {k - c : k \in cuts \ {c}})

\* every way of cutting s at no more than MaxCuts places
RECURSIVE CutSets(_, _)
CutSets(n, k) ==
  IF k = 0 THEN {{}}
  ELSE CutSets(n, k - 1) \cup {c \cup {i} : c \in CutSets(n, k - 1), i \in 1..n}

Cuttings(s) == {CutAt(s, cuts) : cuts \in CutSets(Len(s) - 1, MaxCuts)}

(***************************************************************************)
(* The <think> splitter: App.tsx 845-848 (state) and 947-1000 (loop).      *)
(***************************************************************************)
ThinkOpen == <<"<", "t", "h", "i", "n", "k", ">">>
ThinkClose == <<"<", "/", "t", "h", "i", "n", "k", ">">>

\* the closure variables of handleSendMessage that the splitter uses, plus the
\* isThinking flag its setMessages calls leave on the live message
SplitterInit ==
  [currentVisibleContent |-> <<>>, currentThinkingContent |-> <<>>,
   inThinkBlock |-> FALSE, isThinking |-> FALSE]

RECURSIVE ThinkLoop(_, _, _)
\* while (chunkContent.length > 0) {...}: returns the splitter state and the
\* visibleChunkSegment collected from this fragment
ThinkLoop(chunkContent, visibleChunkSegment, s) ==
  IF Len(chunkContent) = 0 THEN [s |-> s, visibleChunkSegment |-> visibleChunkSegment]
  ELSE IF s.inThinkBlock
    THEN LET thinkEndIndex == IndexOf(chunkContent, ThinkClose) IN
         IF thinkEndIndex # 0
           THEN ThinkLoop(From(chunkContent, thinkEndIndex + Len(ThinkClose)),
                          visibleChunkSegment,
                          [s EXCEPT !.currentThinkingContent =
                                       @ \o SubSeq(chunkContent, 1, thinkEndIndex - 1),
                                    !.inThinkBlock = FALSE,
                                    !.isThinking = FALSE])
           ELSE [s |-> [s EXCEPT !.currentThinkingContent = @ \o chunkContent],
                 visibleChunkSegment |-> visibleChunkSegment]
    ELSE LET thinkStartIndex == IndexOf(chunkContent, ThinkOpen) IN
         IF thinkStartIndex # 0
           THEN ThinkLoop(From(chunkContent, thinkStartIndex + Len(ThinkOpen)),
                          visibleChunkSegment \o SubSeq(chunkContent, 1, thinkStartIndex - 1),
                          [s EXCEPT !.inThinkBlock = TRUE, !.isThinking = TRUE])
           ELSE [s |-> s, visibleChunkSegment |-> visibleChunkSegment \o chunkContent]

\* if (chunkContent) {...}: one content fragment through the splitter
SplitFragment(chunkContent, s) ==
  IF Len(chunkContent) = 0 THEN s
  ELSE LET r == ThinkLoop(chunkContent, <<>>, s)
       IN [r.s EXCEPT !.currentVisibleContent = @ \o r.visibleChunkSegment]

(***************************************************************************)
(* Content texts with well-formed <think>...</think> spans, given by their *)
(* segments: "v" is visible text, "t" the inner text of one span.          *)
(***************************************************************************)
Segmented ==
  { << [kind |-> "v", text |-> <<"a">>], [kind |-> "t", text |-> <<"b">>],
       [kind |-> "v", text |-> <<"c">>] >>,
    << [kind |-> "v", text |-> <<"a", "b", "c">>] >>,
    << [kind |-> "t", text |-> <<"b">>], [kind |-> "t", text |-> <<"c">>],
       [kind |-> "v", text |-> <<"a">>] >>,
    << [kind |-> "v", text |-> <<"a", "<">>], [kind |-> "t", text |-> <<>>] >> }

RECURSIVE Render(_)
\* the content text of a segment list
Render(segs) ==
  IF segs = <<>> THEN <<>>
  ELSE (IF Head(segs).kind = "t" THEN ThinkOpen \o Head(segs).text \o ThinkClose
        ELSE Head(segs).text) \o Render(Tail(segs))

RECURSIVE TextOf(_, _)
\* the concatenated text of the segments of one kind
TextOf(segs, kind) ==
  IF segs = <<>> THEN <<>>
  ELSE (IF Head(segs).kind = kind THEN Head(segs).text ELSE <<>>) \o TextOf(Tail(segs), kind)

(***************************************************************************)
(* Token estimator: App.tsx 618-620.                                       *)
(***************************************************************************)
WhiteSpace == {" ", "\n"}

\* text.split(/\s+/).length: one more than the number of whitespace runs
WordCount(text) ==
  1 + Cardinality({i \in 1..Len(text) :
                     text[i] \in WhiteSpace /\ (i = 1 \/ text[i - 1] \notin WhiteSpace)})

\* Math.round(words * 1.3)
simulateUserMessageTokens(text) == (13 * WordCount(text) + 5) \div 10

(***************************************************************************)
(* The stream decoder of the read loop: App.tsx 888-945.                   *)
(*                                                                         *)
(* Bytes of the response body are atoms: "\n", the prefix "data: ", the    *)
(* sentinel "[DONE]", the braces of a JSON object and, inside the braces,  *)
(* one atom per field name or number and one atom per content character.   *)
(***************************************************************************)
OLLAMA == "ollama"
OPENAI == "openai"
ProviderTypes == {OLLAMA, OPENAI}

Undefined == -1                       \* JavaScript's undefined for a number
ContentChars ==
  {"a", "b", "c", " ", "<", "/", "t", "h", "i", "n", "k", ">", "H", "e", "r", "!"}
ContentKeys == {"message.content=", "delta.content="}
FlagFields == {"done=true", "finish_reason=stop", "usage"}
NumberFields ==
  {"prompt_eval_count=12", "eval_count=34",
   "prompt_tokens=12", "completion_tokens=34", "total_tokens=50"}

\* JSON.parse succeeds on "{" fields "}", a content character only after its key
ParsesAsJSON(jsonData) ==
  /\ Len(jsonData) >= 2
  /\ jsonData[1] = "{"
  /\ jsonData[Len(jsonData)] = "}"
  /\ \A i \in 2..(Len(jsonData) - 1) :
       \/ jsonData[i] \in ContentKeys \cup FlagFields \cup NumberFields
       \/ /\ jsonData[i] \in ContentChars
          /\ i > 2
          /\ jsonData[i - 1] \in ContentKeys \cup ContentChars

\* the string value that follows a content key ("" when the key is absent)
StringField(jsonData, key) ==
  LET at == IndexOf(jsonData, <<key>>)
      stop == {j \in (at + 1)..Len(jsonData) : jsonData[j] \notin ContentChars}
  IN IF at = 0 THEN <<>>
     ELSE SubSeq(jsonData, at + 1, (CHOOSE j \in stop : \A k \in stop : j <= k) - 1)

HasField(jsonData, field) == \E i \in 1..Len(jsonData) : jsonData[i] = field

NumberField(jsonData, field, value) ==
  IF HasField(jsonData, field) THEN value ELSE Undefined

\* lines 926-945: what the provider-specific branch reads from a parsed record
StreamPart(providerType, jsonData) ==
  IF providerType = OLLAMA
    THEN LET isDone == HasField(jsonData, "done=true") IN
         [chunkContent |-> StringField(jsonData, "message.content="),
          isDone |-> isDone,
          done |-> isDone,
          streamPromptTokens |->
            IF isDone THEN NumberField(jsonData, "prompt_eval_count=12", 12) ELSE Undefined,
          streamCompletionTokens |->
            IF isDone THEN NumberField(jsonData, "eval_count=34", 34) ELSE Undefined,
          streamTotalTokens |-> Undefined]
    ELSE LET isDone == HasField(jsonData, "finish_reason=stop")
             usage == isDone /\ HasField(jsonData, "usage") IN
         [chunkContent |-> StringField(jsonData, "delta.content="),
          isDone |-> isDone,
          done |-> HasField(jsonData, "done=true"),
          streamPromptTokens |->
            IF usage THEN NumberField(jsonData, "prompt_tokens=12", 12) ELSE Undefined,
          streamCompletionTokens |->
            IF usage THEN NumberField(jsonData, "completion_tokens=34", 34) ELSE Undefined,
          streamTotalTokens |->
            IF usage THEN NumberField(jsonData, "total_tokens=50", 50) ELSE Undefined]

\* lines 889: chunkText.split('\n').filter(line => line.trim() !== '')
LinesOf(chunkText) ==
  SelectSeq(SplitOn(chunkText, "\n"), LAMBDA line : \E i \in 1..Len(line) : line[i] # " ")

\* the line filter without the per-line try/catch: a line that does not parse
\* ends the loop over the chunk's lines
LineKindNoCatch(line) ==
  IF ~(Len(line) >= 1 /\ line[1] = "data: ") THEN "skip"
  ELSE IF From(line, 2) = <<"[DONE]">> THEN "sentinel"
  ELSE IF ~ParsesAsJSON(From(line, 2)) THEN "sentinel"
  ELSE "record"

\* lines 895-919: what the loop body makes of one line
\*   "skip"     the line does not start with "data: " (continue)
\*   "sentinel" the line is data: [DONE] (finalize flags, break)
\*   "bad"      JSON.parse throws (logged, next line)
\*   "record"   a parsed record
LineKind(line) ==
  IF ~(Len(line) >= 1 /\ line[1] = "data: ") THEN "skip"
  ELSE IF From(line, 2) = <<"[DONE]">> THEN "sentinel"
  ELSE IF ~ParsesAsJSON(From(line, 2)) THEN "bad"
  ELSE "record"

\* line.slice(6)
JsonData(line) == From(line, 2)

(***************************************************************************)
(* One parsed record applied to the closure variables of the send handler  *)
(* and to the live assistant message: App.tsx 846-850 and 947-1038.        *)
(***************************************************************************)
Tokens(p, c, t) == [prompt |-> p, completion |-> c, total |-> t]
ZeroTokens == Tokens(0, 0, 0)

\* let currentVisibleContent = "", currentThinkingContent = "", inThinkBlock = false,
\* finalTokenData = {0,0,0}
LocalInit ==
  [currentVisibleContent |-> <<>>, currentThinkingContent |-> <<>>,
   inThinkBlock |-> FALSE, finalTokenData |-> ZeroTokens]

\* the fields of the live message that the stream writes
LiveInit ==
  [content |-> <<>>, thinkingContent |-> <<>>, isLoading |-> TRUE, isThinking |-> FALSE,
   tokens |-> ZeroTokens]

\* lines 947-1015: if (chunkContent) { think loop; setMessages(content, isLoading: true) }
ContentStep(chunkContent, loc, msg, mounted) ==
  IF Len(chunkContent) = 0 THEN [loc |-> loc, msg |-> msg]
  ELSE LET s == SplitFragment(chunkContent,
                  [currentVisibleContent |-> loc.currentVisibleContent,
                   currentThinkingContent |-> loc.currentThinkingContent,
                   inThinkBlock |-> loc.inThinkBlock,
                   isThinking |-> msg.isThinking])
       IN [loc |-> [loc EXCEPT !.currentVisibleContent = s.currentVisibleContent,
                               !.currentThinkingContent = s.currentThinkingContent,
                               !.inThinkBlock = s.inThinkBlock],
           msg |-> IF mounted
                     THEN [msg EXCEPT !.content = s.currentVisibleContent,
                                      !.isLoading = TRUE,
                                      !.thinkingContent = s.currentThinkingContent,
                                      !.isThinking = s.isThinking]
                     ELSE msg]

\* lines 1019-1025: stream figures when present, the estimator otherwise
FinalTokenData(part, currentVisibleContent, activeSystemPrompt, userInput) ==
  LET promptTokens ==
        IF part.streamPromptTokens # Undefined THEN part.streamPromptTokens
        ELSE simulateUserMessageTokens(activeSystemPrompt) + simulateUserMessageTokens(userInput)
      completionTokens ==
        IF part.streamCompletionTokens # Undefined THEN part.streamCompletionTokens
        ELSE simulateUserMessageTokens(currentVisibleContent)
  IN Tokens(promptTokens, completionTokens,
            IF part.streamTotalTokens # Undefined THEN part.streamTotalTokens
            ELSE promptTokens + completionTokens)

\* line 1017: the record ends the exchange
EndsExchange(providerType, part) == part.isDone \/ (providerType = OLLAMA /\ part.done)

\* lines 1017-1038: usage and the end-of-stream flags, up to the await of line 1042
DoneStep(part, loc, msg, mounted, activeSystemPrompt, userInput) ==
  [loc |-> [loc EXCEPT !.finalTokenData =
              FinalTokenData(part, loc.currentVisibleContent, activeSystemPrompt, userInput)],
   msg |-> IF mounted
             THEN [msg EXCEPT !.isThinking = FALSE, !.isLoading = FALSE,
                              !.thinkingContent = loc.currentThinkingContent]
             ELSE msg]

\* lines 900-916: data: [DONE]
SentinelStep(loc, msg, mounted) ==
  IF mounted
    THEN [msg EXCEPT !.isThinking = FALSE, !.isLoading = FALSE,
                     !.tokens = loc.finalTokenData,
                     !.thinkingContent = loc.currentThinkingContent]
    ELSE msg

RECURSIVE RunLines(_, _, _, _, _, _, _)
\* the for loop over the lines of one chunk, run until it ends ("end"), breaks on
\* the sentinel ("end") or suspends in the await of line 1042 ("await", with the
\* lines still to process)
RunLines(providerType, lines, loc, msg, mounted, activeSystemPrompt, userInput) ==
  IF lines = <<>> THEN [loc |-> loc, msg |-> msg, at |-> "end", rest |-> <<>>]
  ELSE LET line == Head(lines)
           kind == LineKind(line)
       IN IF kind \in {"skip", "bad"}
            THEN RunLines(providerType, Tail(lines), loc, msg, mounted,
                          activeSystemPrompt, userInput)
          ELSE IF kind = "sentinel"
            THEN [loc |-> loc, msg |-> SentinelStep(loc, msg, mounted),
                  at |-> "end", rest |-> <<>>]
          ELSE LET part == StreamPart(providerType, JsonData(line))
                   c == ContentStep(part.chunkContent, loc, msg, mounted)
               IN IF EndsExchange(providerType, part)
                    THEN LET d == DoneStep(part, c.loc, c.msg, mounted,
                                           activeSystemPrompt, userInput)
                         IN [loc |-> d.loc, msg |-> d.msg, at |-> "await",
                             rest |-> Tail(lines)]
                    ELSE RunLines(providerType, Tail(lines), c.loc, c.msg, mounted,
                                  activeSystemPrompt, userInput)

RECURSIVE EmittedDeltas(_, _)
\* the content deltas the for loop takes from the lines of one chunk, concatenated
EmittedDeltas(providerType, lines) ==
  IF lines = <<>> THEN <<>>
  ELSE LET kind == LineKind(Head(lines))
       IN IF kind = "sentinel" THEN <<>>
          ELSE (IF kind = "record"
                  THEN StreamPart(providerType, JsonData(Head(lines))).chunkContent
                  ELSE <<>>) \o EmittedDeltas(providerType, Tail(lines))

RECURSIVE DecodeChunk(_, _, _, _, _)
\* one chunk through the loop body when nothing cancels it: every await of
\* line 1042 resumes and the loop goes on with the remaining lines
DecodeChunk(providerType, lines, loc, activeSystemPrompt, userInput) ==
  LET r == RunLines(providerType, lines, loc, LiveInit, TRUE, activeSystemPrompt, userInput)
  IN IF r.at = "await" /\ r.rest # <<>>
       THEN DecodeChunk(providerType, r.rest, r.loc, activeSystemPrompt, userInput)
       ELSE r.loc

(***************************************************************************)
(* Response bodies.                                                        *)
(***************************************************************************)
DEFAULT_SYSTEM_PROMPT ==
  <<"You", " ", "are", " ", "a", " ", "helpful", " ", "AI", " ", "assistant.", " ",
    "Respond", " ", "in", " ", "Markdown", " ", "format.">>
Hello == <<"H", "e", "l", "l", "o">>

\* an SSE line carrying a content delta
SseDelta(text) == <<"data: ", "{", "delta.content=">> \o text \o <<"}", "\n">>
\* the final SSE record: finish reason and usage without a total
SseFinish ==
  <<"data: ", "{", "finish_reason=stop", "usage", "prompt_tokens=12",
    "completion_tokens=34", "}", "\n">>
\* the final SSE record with a provider-supplied total
SseFinishTotal ==
  <<"data: ", "{", "finish_reason=stop", "usage", "prompt_tokens=12",
    "completion_tokens=34", "total_tokens=50", "}", "\n">>
SseDone == <<"data: ", "[DONE]", "\n">>
\* a final SSE record with a finish reason and no usage object
SseFinishNoUsage == <<"data: ", "{", "finish_reason=stop", "}", "\n">>
\* an SSE line whose JSON is cut short (JSON.parse throws)
SseMalformed == <<"data: ", "{", "delta.content=", "b", "\n">>
\* Ollama's final record without the counts
NdDoneNoUsage == <<"{", "done=true", "}", "\n">>
\* the two content fragments "Hi the" and "re!"
HiThe == <<"H", "i", " ", "t", "h", "e">>
Re == <<"r", "e", "!">>
\* an Ollama NDJSON line carrying a content delta
NdDelta(text) == <<"{", "message.content=">> \o text \o <<"}", "\n">>
\* Ollama's final record: done with prompt_eval_count and eval_count
NdDone == <<"{", "done=true", "prompt_eval_count=12", "eval_count=34", "}", "\n">>

\* whole response bodies, in the framing the provider uses
Payloads(providerType) ==
  IF providerType = OLLAMA
    THEN {NdDelta(<<"a">>) \o NdDelta(<<"b">>) \o NdDone,
          NdDelta(<<"a", "b">>) \o NdDone}
    ELSE {SseDelta(<<"a">>) \o SseDelta(<<"b">>) \o SseFinish \o SseDone,
          SseDelta(<<"a", "b">>) \o SseFinishTotal,
          SseDelta(<<"a">>) \o SseDelta(<<"b">>)}

(***************************************************************************)
(* State.                                                                  *)
(***************************************************************************)
VARIABLES
  spSegments,      \* splitter run: the segments of the content text fed in
  spFragments,     \* splitter run: the fragments not yet fed
  spFed,           \* splitter run: the number of fragments fed
  spState,         \* splitter run: the splitter's closure variables
  dcProvider,      \* decoder run: providerState.type
  dcPayload,       \* decoder run: the whole response body
  dcChunks,        \* decoder run: the chunks reader.read() has still to return
  dcDeltas,        \* decoder run: the content deltas emitted so far, concatenated
  dcLocal,         \* decoder run: the closure variables of the send handler
  isOnline,           \* networkStatus.isOnline (navigator.onLine)
  localStorageQueue,  \* localStorage['offlineMessageQueue']: present, and the saved array
  offlineQueue,       \* per hook instance: the offlineQueue state
  isProcessingQueue,  \* per hook instance: the isProcessingQueue state
  hookMounted,        \* per hook instance: its component is mounted
  retryingIds,        \* OfflineQueueManager's retryingIds state
  inFlight,           \* retryMessage calls waiting on their fetch
  nextQueuedId,       \* the next id addToQueue hands out
  retryEvents,        \* per queued id: messageRetrySuccess / messageRetryFailed events dispatched
  offlineSends,       \* offline sends waiting on addConversation: the new conversation ids
  removedIds,         \* the ids the user has removed through remove / clear
  providerType,          \* providerState.type
  isMounted,             \* isMounted.current
  isLoading,             \* the isLoading state of App
  abortControllerRef,    \* abortControllerRef.current: Null or a controller
  controllers,           \* per AbortController: signal.aborted and signal.reason
  messages,              \* the live message list (messages state)
  currentConversationId, \* the conversation the UI shows, Null when none
  conversationsList,     \* conversationsList state
  dbConversations,       \* db.conversations
  dbMessages,            \* db.chatMessages
  exchanges,             \* the handleSendMessage calls made so far, each with its closure
  effectPending,         \* the effect on [currentConversationId, conversationsList] is due
  effectLoads,           \* loadMessages() reads of that effect waiting for their result
  convLoads,             \* handleLoadConversation calls waiting on their reads
  convDeletes,           \* handleDeleteConversation calls waiting on the store
  conversationProvider,  \* per conversation: the providerType / providerUrl stored on it
  retryRejected,         \* the ids whose offlineQueue.retry(id) rejected into handleRetryMessage
  swQueue,               \* service worker: the 'queue' object store of ServiceWorkerQueue
  swNextId,              \* service worker: the next id queueMessage hands out
  swSync,                \* service worker: where processOfflineQueue is suspended
  swSyncs,               \* service worker: the sync events handled so far
  swAttempts,            \* service worker: per item id, the fetches made for it
  swBroadcasts           \* service worker: the messages broadcast to the clients

splitterVars == <<spSegments, spFragments, spFed, spState>>
decoderVars == <<dcProvider, dcPayload, dcChunks, dcDeltas, dcLocal>>

queueVars == <<isOnline, localStorageQueue, offlineQueue, isProcessingQueue, hookMounted,
               retryingIds, inFlight, nextQueuedId, retryEvents, offlineSends, removedIds>>

sessionVars == <<providerType, isMounted, isLoading, abortControllerRef, controllers,
                 messages, currentConversationId, conversationsList, dbConversations,
                 dbMessages, exchanges, effectPending, effectLoads, convLoads>>

otherVars == <<convDeletes, conversationProvider, retryRejected>>

workerVars == <<swQueue, swNextId, swSync, swSyncs, swAttempts, swBroadcasts>>

vars == <<splitterVars, decoderVars, queueVars, sessionVars, otherVars, workerVars>>

(***************************************************************************)
(* The offline queue of useNetworkStatus (unnamed/part_005, 696-914).      *)
(* Three components call the hook and each call has its own state: App     *)
(* (App.tsx 141), NetworkStatusIndicator (unnamed/part_002, 18) and        *)
(* OfflineQueueManager (OfflineQueueManager.tsx 16), which is mounted only *)
(* while its modal is open (App.tsx 1416-1421).                            *)
(***************************************************************************)
App == "App"
Indicator == "NetworkStatusIndicator"
Manager == "OfflineQueueManager"
Readers == {App, Indicator, Manager}
Orphan == "unmounted"                 \* the instance a pending call belonged to is gone

\* ids of the messages queued in a run, then of those a drain run starts with
QueuedIds == 1..(MaxItems + MaxDrainItems)
MaxRetries == 3                       \* updatedMessage.retries >= 3

Ids(queue) == {queue[i].id : i \in 1..Len(queue)}
Find(queue, id) == CHOOSE m \in {queue[i] : i \in 1..Len(queue)} : m.id = id

\* const [offlineQueue, setOfflineQueue] = useState([]); isProcessingQueue = false
QueueIdle ==
  /\ isOnline = TRUE
  /\ localStorageQueue = [present |-> FALSE, queue |-> <<>>]
  /\ offlineQueue = [r \in Readers |-> <<>>]
  /\ isProcessingQueue = [r \in Readers |-> FALSE]
  /\ hookMounted = [r \in Readers |-> r # Manager]
  /\ retryingIds = {}
  /\ inFlight = {}
  /\ nextQueuedId = 1
  /\ retryEvents = [id \in QueuedIds |-> [success |-> 0, failed |-> 0]]
  /\ offlineSends = <<>>
  /\ removedIds = {}

\* saveOfflineQueue: localStorage.setItem('offlineMessageQueue', JSON.stringify(queue))
saveOfflineQueue(queue) == [present |-> TRUE, queue |-> queue]

\* loadOfflineQueue: the saved array when the key is present, else the state is kept
loadOfflineQueue(current) ==
  IF localStorageQueue.present THEN localStorageQueue.queue ELSE current

\* the window 'online' / 'offline' events: updateNetworkStatus in every instance
NetworkChange ==
  /\ UNCHANGED <<splitterVars, decoderVars, otherVars, workerVars, sessionVars>>
  /\ isOnline' = ~isOnline
  /\ UNCHANGED <<localStorageQueue, offlineQueue, isProcessingQueue, hookMounted,
                 retryingIds, inFlight, nextQueuedId, retryEvents, offlineSends, removedIds>>

\* addToQueue without its saveOfflineQueue call: the message joins App's queue
\* in memory only
addToQueueUnsaved(conversationId, content) ==
  /\ nextQueuedId <= MaxItems
  /\ offlineQueue' =
       [offlineQueue EXCEPT ![App] =
          Append(@, [id |-> nextQueuedId, conversationId |-> conversationId,
                     content |-> content, retries |-> 0])]
  /\ nextQueuedId' = nextQueuedId + 1
  /\ UNCHANGED <<isOnline, localStorageQueue, isProcessingQueue, hookMounted, retryingIds,
                 inFlight, retryEvents, removedIds>>

\* addToQueue of App's instance (offlineQueue.add of App.tsx 664): the new
\* message with retries 0 joins App's queue, which is saved
addToQueue(conversationId, content) ==
  /\ nextQueuedId <= MaxItems
  /\ LET queuedMessage == [id |-> nextQueuedId, conversationId |-> conversationId,
                           content |-> content, retries |-> 0]
         newQueue == Append(offlineQueue[App], queuedMessage)
     IN /\ offlineQueue' = [offlineQueue EXCEPT ![App] = newQueue]
        /\ localStorageQueue' = saveOfflineQueue(newQueue)
  /\ nextQueuedId' = nextQueuedId + 1
  /\ UNCHANGED <<isOnline, isProcessingQueue, hookMounted, retryingIds, inFlight,
                 retryEvents, removedIds>>

\* a filter that keeps every message
Kept(r, id, queues) == queues

\* setOfflineQueue(prev => prev.filter(msg => msg.id !== id)) with its save; a
\* state update of an unmounted instance is dropped together with its updater
Removed(r, id, queues) ==
  [queues EXCEPT ![r] = SelectSeq(@, LAMBDA msg : msg.id # id)]

\* removeFromQueue through the manager's remove button (handleRemoveMessage)
removeFromQueue(id) ==
  /\ UNCHANGED <<splitterVars, decoderVars, otherVars, workerVars, sessionVars>>
  /\ hookMounted[Manager]
  /\ id \in Ids(offlineQueue[Manager])
  /\ offlineQueue' = Removed(Manager, id, offlineQueue)
  /\ localStorageQueue' = saveOfflineQueue(offlineQueue'[Manager])
  /\ removedIds' = removedIds \cup {id}
  /\ UNCHANGED <<isOnline, isProcessingQueue, hookMounted, retryingIds, inFlight,
                 nextQueuedId, retryEvents, offlineSends>>

\* clearQueue through the manager's clear button (handleClearQueue)
clearQueue ==
  /\ UNCHANGED <<splitterVars, decoderVars, otherVars, workerVars, sessionVars>>
  /\ hookMounted[Manager]
  /\ offlineQueue[Manager] # <<>>
  /\ offlineQueue' = [offlineQueue EXCEPT ![Manager] = <<>>]
  /\ localStorageQueue' = [present |-> FALSE, queue |-> <<>>]
  /\ removedIds' = removedIds \cup Ids(offlineQueue[Manager])
  /\ UNCHANGED <<isOnline, isProcessingQueue, hookMounted, retryingIds, inFlight,
                 nextQueuedId, retryEvents, offlineSends>>

\* retryMessage up to its fetch: the message is looked up in the offlineQueue of
\* the render the callback was made in, and that snapshot stays in its closure
Call(r, id, drain) ==
  [reader |-> r, id |-> id, message |-> Find(offlineQueue[r], id), drain |-> drain]

\* handleRetryMessage: the manager's per-message retry button
retryMessage(id) ==
  /\ UNCHANGED <<splitterVars, decoderVars, otherVars, workerVars, sessionVars>>
  /\ hookMounted[Manager]
  /\ isOnline
  /\ id \in Ids(offlineQueue[Manager])
  /\ id \notin retryingIds
  /\ retryingIds' = retryingIds \cup {id}
  /\ inFlight' = inFlight \cup {Call(Manager, id, FALSE)}
  /\ UNCHANGED <<isOnline, localStorageQueue, offlineQueue, isProcessingQueue,
                 hookMounted, nextQueuedId, retryEvents, offlineSends, removedIds>>

\* retryAllMessages of instance r: guard, setIsProcessingQueue(true), one
\* retryMessage per queued message, all of them pending on their fetch
retryAllMessages(r) ==
  /\ UNCHANGED <<splitterVars, decoderVars, otherVars, workerVars, sessionVars>>
  /\ ~isProcessingQueue[r]
  /\ isOnline
  /\ offlineQueue[r] # <<>>
  /\ isProcessingQueue' = [isProcessingQueue EXCEPT ![r] = TRUE]
  /\ inFlight' = inFlight \cup {Call(r, id, TRUE) : id \in Ids(offlineQueue[r])}
  /\ UNCHANGED <<isOnline, localStorageQueue, offlineQueue, hookMounted, retryingIds,
                 nextQueuedId, retryEvents, offlineSends, removedIds>>

\* the auto-retry effect of instance r: the 2 s timer of its current render
\* fires; for the manager also its Retry All button (handleRetryAll), which is
\* enabled on the same condition and calls the same retryAllMessages
AutoRetry(r) ==
  /\ hookMounted[r]
  /\ retryAllMessages(r)

\* one more event, counted up to MaxEvents
Counted(n) == IF n < MaxEvents THEN n + 1 ELSE n

\* await Promise.all(promises): the join is over at the first rejection
FirstRejection(r, call, ok) ==
  ~ok \/ {c \in inFlight \ {call} : c.reader = r /\ c.drain} = {}

\* await Promise.allSettled(promises): the drain of instance r goes on to its
\* finally when the last of its retryMessage calls has settled, whatever the
\* outcome ok of the call that settles now
AllSettled(r, call, ok) == {c \in inFlight \ {call} : c.reader = r /\ c.drain} = {}

\* the fetch of one retryMessage call settles; ok is response.ok
RetrySettle(call, ok) ==
  /\ UNCHANGED <<splitterVars, decoderVars, convDeletes, conversationProvider, workerVars,
                 sessionVars>>
  /\ call \in inFlight
  /\ LET r == call.reader
         id == call.id
         live == r # Orphan
         \* catch: retries + 1, saved
         bumped == IF live
                     THEN [offlineQueue EXCEPT ![r] =
                             [i \in 1..Len(@) |->
                                IF @[i].id = id THEN [@[i] EXCEPT !.retries = @ + 1]
                                ELSE @[i]]]
                     ELSE offlineQueue
         \* const updatedMessage = offlineQueue.find(...): the closure's snapshot
         giveUp == call.message.retries >= MaxRetries
         removes == ok \/ giveUp
         final == IF live /\ removes THEN Removed(r, id, IF ok THEN offlineQueue ELSE bumped)
                  ELSE IF ok THEN offlineQueue ELSE bumped
     IN /\ offlineQueue' = final
        /\ localStorageQueue' = IF live THEN saveOfflineQueue(final[r]) ELSE localStorageQueue
        /\ retryEvents' =
             IF ok THEN [retryEvents EXCEPT ![id].success = Counted(@)]
             ELSE IF giveUp THEN [retryEvents EXCEPT ![id].failed = Counted(@)]
             ELSE retryEvents
        \* Promise.allSettled of the drain, then finally setIsProcessingQueue(false)
        /\ isProcessingQueue' =
             IF live /\ call.drain /\ AllSettled(r, call, ok)
               THEN [isProcessingQueue EXCEPT ![r] = FALSE]
               ELSE isProcessingQueue
        \* handleRetryMessage's finally
        /\ retryingIds' = IF live /\ ~call.drain THEN retryingIds \ {id} ELSE retryingIds
  /\ inFlight' = inFlight \ {call}
  \* throw error (line 826): the promise of retry(id) rejects into
  \* handleRetryMessage; the rejections of a drain stay inside Promise.allSettled
  /\ retryRejected' = IF ~ok /\ ~call.drain THEN retryRejected \cup {call.id}
                      ELSE retryRejected
  /\ UNCHANGED <<isOnline, hookMounted, nextQueuedId, offlineSends, removedIds>>

\* the queue modal opens: a new hook instance mounts and loads the saved queue
ManagerOpen ==
  /\ UNCHANGED <<splitterVars, decoderVars, otherVars, workerVars, sessionVars>>
  /\ ~hookMounted[Manager]
  /\ hookMounted' = [hookMounted EXCEPT ![Manager] = TRUE]
  /\ offlineQueue' = [offlineQueue EXCEPT ![Manager] = loadOfflineQueue(<<>>)]
  /\ UNCHANGED <<isOnline, localStorageQueue, isProcessingQueue, retryingIds, inFlight,
                 nextQueuedId, retryEvents, offlineSends, removedIds>>

\* the queue modal closes: the instance and its state are gone, its pending
\* calls go on without it
ManagerClose ==
  /\ UNCHANGED <<splitterVars, decoderVars, otherVars, workerVars, sessionVars>>
  /\ hookMounted[Manager]
  /\ Cardinality({c \in inFlight : c.reader \in {Manager, Orphan}}) <= MaxOrphans
  /\ hookMounted' = [hookMounted EXCEPT ![Manager] = FALSE]
  /\ offlineQueue' = [offlineQueue EXCEPT ![Manager] = <<>>]
  /\ isProcessingQueue' = [isProcessingQueue EXCEPT ![Manager] = FALSE]
  /\ retryingIds' = {}
  /\ inFlight' = {IF c.reader = Manager THEN [c EXCEPT !.reader = Orphan] ELSE c :
                    c \in inFlight}
  /\ UNCHANGED <<isOnline, localStorageQueue, nextQueuedId, retryEvents, offlineSends,
                 removedIds>>

(***************************************************************************)
(* The service worker's background-sync queue (components/                 *)
(* ResponseDisplay.tsx 302-313, 368-371, 533-602, 639-678).                *)
(***************************************************************************)
\* event.data.payload of a QUEUE_MESSAGE message
WorkerPayloads == {"first", "second"}

WorkerIds == 1..MaxWorkerItems

\* no message queued, no sync event yet
WorkerIdle ==
  /\ swQueue = <<>>
  /\ swNextId = 1
  /\ swSync = 0
  /\ swSyncs = 0
  /\ swAttempts = [id \in WorkerIds |-> 0]
  /\ swBroadcasts = <<>>

\* store.getAll(): an IDBRequest, whose result is filled in when it succeeds
getAll(store) == [kind |-> "IDBRequest", result |-> store]

\* await value: the value a promise resolves to, or the value itself when it is
\* not a thenable
Await(value) == IF value.kind = "Promise" THEN value.result ELSE value

\* for (const item of items): the value has to be an iterable
IsIterable(value) == value.kind = "Array"

\* the message event (368-371): queueMessage adds the payload with retries 0
QueueMessage(data) ==
  /\ swNextId <= MaxWorkerItems
  /\ swQueue' = Append(swQueue, [id |-> swNextId, data |-> data, retries |-> 0])
  /\ swNextId' = swNextId + 1
  /\ UNCHANGED <<swSync, swSyncs, swAttempts, swBroadcasts>>
  /\ UNCHANGED <<splitterVars, decoderVars, queueVars, sessionVars, otherVars>>

\* the sync event with tag 'chat-queue' (302-308): processOfflineQueue is
\* called and waits on openQueueDB
SyncEvent ==
  /\ swSyncs < MaxSyncs
  /\ swSyncs' = swSyncs + 1
  /\ swSync' = swSync + 1
  /\ UNCHANGED <<swQueue, swNextId, swAttempts, swBroadcasts>>
  /\ UNCHANGED <<splitterVars, decoderVars, queueVars, sessionVars, otherVars>>

\* openQueueDB resolves (566-602): items is what await store.getAll() gives.
\* Looping over a value that is not iterable throws a TypeError, which the
\* outer catch logs. With an array the first item is fetched; by the time the
\* fetch settles the transaction has finished, so store.delete / store.put
\* throws, out of the inner catch too, and the outer catch ends the loop
SyncOpenResolve ==
  /\ swSync > 0
  /\ swSync' = swSync - 1
  /\ LET items == Await(getAll(swQueue))
     IN swAttempts' =
          IF IsIterable(items) /\ items.result # <<>>
            THEN [swAttempts EXCEPT ![Head(items.result).id] = @ + 1]
            ELSE swAttempts
  /\ UNCHANGED <<swQueue, swNextId, swSyncs, swBroadcasts>>
  /\ UNCHANGED <<splitterVars, decoderVars, queueVars, sessionVars, otherVars>>

(***************************************************************************)
(* The chat session of App.tsx: handleSendMessage (622-1101) as a process  *)
(* that is suspended at each of its awaits, the handlers the user can      *)
(* trigger meanwhile, and the effect that reloads the message list.        *)
(*                                                                         *)
(* A write to IndexedDB is applied when the call is made and its await     *)
(* resumes in a later step; a read returns the store as it is when the     *)
(* call is made.                                                           *)
(***************************************************************************)
Null == 0                              \* null (a reference) / no conversation
NoProvider == "none"                   \* no conversation with this id

\* the online sends of one visit: the first ones and those made after a Stop
MaxSends == MaxExchanges + MaxResends
ExchangeIds == 1..MaxSends             \* also names the AbortController a send creates
\* uuidv4() of a send that starts a conversation: online sends, then offline
\* sends, then a conversation stored by an earlier visit
ConversationIds == 1..(MaxSends + MaxItems + 1)
offlineConversationId(q) == MaxSends + q
StoredConversation == MaxSends + MaxItems + 1
MessageIds == 1..(2 * MaxSends)
\* const userMessageId = uuidv4(); const assistantMessageId = uuidv4()
userMessageId(e) == 2 * e - 1
assistantMessageId(e) == 2 * e

\* abort reasons and error messages, one atom each
StopReason == <<"User cancelled generation.">>
NewChatReason == <<"Starting new chat.">>
LoadReason == <<"Loading another conversation.">>
AbortError == <<"signal is aborted without reason">>     \* abort() without a reason
UserAborted == <<"The user aborted a request.">>
NullSignal == <<"Cannot read properties of null (reading 'signal')">>
FailedToFetch == <<"Failed to fetch">>
\* `... API Error: ${status} ${statusText} - ${errorText}`, character by character
\* from "API" on (the provider's name is left out, the status text is empty)
ApiError ==
  <<"A", "P", "I", " ", "E", "r", "r", "o", "r", ":", " ", "5", "0", "0", " ", " ", "-", " ">>
\* response.text() of a non-2xx response: nothing, or a page of 201 characters
ErrorTexts == {<<>>, [i \in 1..201 |-> "x"]}
BodyNull == <<"Response body is null">>
NetworkError == <<"network error">>       \* reader.read() of a connection that broke
NoReason == <<>>                       \* signal.reason of a signal not aborted

\* "\\n\\n[Generation stopped by user]"
StopMarker == <<"\\n\\n[Generation stopped by user]">>

\* errorMessage.substring(0, n)
Substring(text, n) == SubSeq(text, 1, IF Len(text) < n THEN Len(text) ELSE n)

\* `Error: ${errorMessage}...`: the error text at its full length
ErrorContentUncut(errorMessage) == <<"Error: ">> \o errorMessage \o <<"...">>

\* `Error: ${errorMessage.substring(0,200)}...`
ErrorContent(errorMessage) == <<"Error: ">> \o Substring(errorMessage, 200) \o <<"...">>

\* response bodies as the chunks reader.read() returns them, cut at line ends
Bodies(provider) ==
  IF provider = OLLAMA
    THEN {<<NdDelta(<<"a">>), NdDelta(<<"b">>) \o NdDone>>,
          <<NdDelta(HiThe), NdDelta(Re) \o NdDoneNoUsage>>}
    ELSE {<<SseDelta(<<"a">>), SseDelta(<<"b">>) \o SseFinish \o SseDone>>,
          <<SseDelta(<<"a">>) \o SseFinishTotal>>,
          \* no usage: a finish reason only, the sentinel only, the end of the body
          <<SseDelta(<<"a">>) \o SseFinishNoUsage>>,
          <<SseDelta(<<"a">>) \o SseDone>>,
          <<SseDelta(<<"a">>)>>,
          \* a malformed line between well-formed ones
          <<SseDelta(<<"a">>) \o SseMalformed \o SseDelta(<<"a">>), SseFinish>>,
          \* a record after the finish reason, and one after the sentinel
          <<SseDelta(<<"a">>) \o SseFinish \o SseDelta(<<"c">>)>>,
          <<SseDelta(<<"a">>) \o SseFinish \o SseDone, SseDelta(<<"c">>)>>,
          \* "Hi the", "re!" and a final record without usage
          <<SseDelta(HiThe), SseDelta(Re) \o SseFinishNoUsage>>,
          \* a think span over three fragments, then visible text
          <<SseDelta(ThinkOpen \o <<"b">>), SseDelta(<<"c">>),
            SseDelta(ThinkClose \o <<"a">>) \o SseFinish>>}

\* the properties of the Message objects handleSendMessage builds: userMessageForUi
\* (lines 759-769) and assistantMessagePlaceholder (lines 786-795)
MessageKeys(role) ==
  IF role = "user" THEN {"id", "role", "content", "timestamp", "tokens"}
  ELSE {"id", "role", "content", "model", "timestamp", "isLoading", "isThinking", "tokens"}

\* the properties StoredMessage omits from Message, but for model (types.ts 54-57)
TransientKeys == {"isLoading", "isThinking"}

\* { ...message, conversationId }: the object handed to addMessage as it is
ForDbWhole(keys) == keys \cup {"conversationId"}

\* const { isLoading, isThinking, ...rest } = message; { ...rest, conversationId }
\* (lines 770-774 and 796-801)
ForDb(keys) == (keys \ TransientKeys) \cup {"conversationId"}

\* the record db.chatMessages holds for an id (exists = FALSE: none); keys are
\* the properties of the stored object
NoMessage ==
  [exists |-> FALSE, conversationId |-> Null, role |-> "none", content |-> <<>>,
   tokens |-> ZeroTokens, keys |-> {}, timestamp |-> 0]
StoredMessage(conv, role, content, tokens, timestamp) ==
  [exists |-> TRUE, conversationId |-> conv, role |-> role, content |-> content,
   tokens |-> tokens, keys |-> ForDb(MessageKeys(role)), timestamp |-> timestamp]

\* const timestamp = new Date() of line 716, in milliseconds: successive sends
\* are at least two milliseconds apart
SendTime(e) == 2 * e - 1

\* the placeholder's timestamp taken to be the user message's
PlaceholderTimeSame(timestamp) == timestamp

\* new Date(timestamp.getTime() + 1) of line 793
PlaceholderTime(timestamp) == timestamp + 1

RECURSIVE SortByTimestamp(_, _)
\* sortBy('timestamp') over the records with these ids; records with the same
\* timestamp keep the order of their primary keys
SortByTimestamp(db, ids) ==
  IF ids = {} THEN <<>>
  ELSE LET first == CHOOSE i \in ids :
                      \A j \in ids : \/ db[i].timestamp < db[j].timestamp
                                     \/ db[i].timestamp = db[j].timestamp /\ i <= j
       IN <<first>> \o SortByTimestamp(db, ids \ {first})

\* a live message (Message): the stored fields plus the transient ones
LiveMessage(id, role, content, loading, tokens) ==
  [id |-> id, role |-> role, content |-> content, thinkingContent |-> <<>>,
   isLoading |-> loading, isThinking |-> FALSE, tokens |-> tokens]

\* getMessagesForConversation: the stored messages of conv sorted by timestamp,
\* as live messages whose transient fields are unset
getMessagesForConversation(conv) ==
  LET ids == SortByTimestamp(dbMessages,
                             {i \in MessageIds : /\ dbMessages[i].exists
                                                 /\ dbMessages[i].conversationId = conv})
  IN [k \in 1..Len(ids) |->
        LiveMessage(ids[k], dbMessages[ids[k]].role, dbMessages[ids[k]].content, FALSE,
                    dbMessages[ids[k]].tokens)]

\* { ...record, ...changes }
Spread(record, changes) ==
  [f \in DOMAIN record |-> IF f \in DOMAIN changes THEN changes[f] ELSE record[f]]

\* prevMessages.map(msg => msg.id === id ? { ...msg, ...changes } : msg)
MapMessage(msgs, id, changes) ==
  [i \in 1..Len(msgs) |-> IF msgs[i].id = id THEN Spread(msgs[i], changes) ELSE msgs[i]]

\* the live message with this id; the placeholder when the list has none (the
\* map above then changes nothing)
LiveOf(msgs, id) ==
  IF \E i \in 1..Len(msgs) : msgs[i].id = id
    THEN msgs[CHOOSE i \in 1..Len(msgs) : msgs[i].id = id]
    ELSE LiveMessage(id, "assistant", <<>>, TRUE, ZeroTokens)

\* the closure of one handleSendMessage call and where it is suspended
\*   pc: "conv" 737/743, "userMsg" 776, "asstMsg" 803, "fetch" 866, "errorText" 874,
\*       "read" 885, "tokenCount" 1042, "updateMessage" 1065, "updateConversation" 1068,
\*       "updateMessageError" 1087, "done" returned
\*   terminal: "none", or how the exchange ended: "completed", "failed", or cancelled
\*       by "stop", "newChat", "load", "unmount"
\*   writes: the updateMessage calls the handler has made for its assistant message
NewExchange(conv, isNew, tokenCount) ==
  [pc |-> "conv", conv |-> conv, newConversation |-> isNew,
   conversationTokenCount |-> tokenCount, provider |-> providerType,
   signal |-> Null, response |-> <<>>, body |-> <<>>, rest |-> <<>>, loc |-> LocalInit,
   errorMessage |-> <<>>, alerted |-> FALSE,
   terminal |-> "none", visibleAtStop |-> <<>>, writes |-> 0]

Cancellations == {"stop", "newChat", "load", "unmount"}

\* useState / useRef initial values, an empty store
SessionStart ==
  /\ isMounted = TRUE
  /\ isLoading = FALSE
  /\ abortControllerRef = Null
  /\ controllers = [c \in ExchangeIds |-> [aborted |-> FALSE, reason |-> NoReason]]
  /\ messages = <<>>
  /\ currentConversationId = Null
  /\ conversationsList = [c \in ConversationIds |-> [listed |-> FALSE, totalTokenCount |-> 0]]
  /\ dbConversations = [c \in ConversationIds |-> [exists |-> FALSE, totalTokenCount |-> 0]]
  /\ dbMessages = [m \in MessageIds |-> NoMessage]
  /\ exchanges = <<>>
  /\ effectPending = FALSE
  /\ effectLoads = <<>>
  /\ convLoads = <<>>
  /\ convDeletes = <<>>
  /\ conversationProvider = [c \in ConversationIds |-> NoProvider]
  /\ retryRejected = {}
  /\ WorkerIdle

\* the session before anything is sent, with the default provider setting
SessionIdle ==
  /\ providerType = OLLAMA
  /\ SessionStart

\* the state a step of the send handler reads and writes
World ==
  [isLoading |-> isLoading, abortControllerRef |-> abortControllerRef,
   messages |-> messages, currentConversationId |-> currentConversationId,
   conversationsList |-> conversationsList, dbConversations |-> dbConversations,
   dbMessages |-> dbMessages, exchanges |-> exchanges, effectPending |-> effectPending]

\* the step leaves the state w
Commit(w) ==
  /\ isLoading' = w.isLoading
  /\ abortControllerRef' = w.abortControllerRef
  /\ messages' = w.messages
  /\ currentConversationId' = w.currentConversationId
  /\ conversationsList' = w.conversationsList
  /\ dbConversations' = w.dbConversations
  /\ dbMessages' = w.dbMessages
  /\ exchanges' = w.exchanges
  /\ effectPending' = w.effectPending
  /\ UNCHANGED <<providerType, isMounted, controllers, effectLoads, convLoads,
                 splitterVars, decoderVars, otherVars, workerVars, queueVars>>

\* abortControllerRef.current?.signal.aborted
RefAborted(w) == w.abortControllerRef # Null /\ controllers[w.abortControllerRef].aborted

\* db.chatMessages.update(id, changes): no record with this id, no change
updateMessage(db, id, changes) ==
  IF db[id].exists
    THEN [db EXCEPT ![id] = [Spread(@, changes) EXCEPT !.keys = @ \cup DOMAIN changes]]
    ELSE db

\* db.conversations.update(id, { totalTokenCount })
updateConversation(db, id, total) ==
  IF db[id].exists THEN [db EXCEPT ![id].totalTokenCount = total] ELSE db

\* lines 1092-1100: finally
Finally(w, e) ==
  LET returned == [w EXCEPT !.exchanges[e].pc = "done"] IN
  IF ~isMounted THEN returned
  ELSE [returned EXCEPT
          !.isLoading = FALSE,
          !.abortControllerRef =
             IF @ # Null /\ controllers[@].reason # StopReason THEN Null ELSE @]

\* lines 1074-1087: catch (error), up to the await of updateMessage
Catch(w, e, errorMessage) ==
  LET id == assistantMessageId(e)
      caught == [w EXCEPT !.exchanges[e].errorMessage = errorMessage] IN
  IF ~isMounted THEN [caught EXCEPT !.exchanges[e].pc = "done"]
  ELSE IF ~RefAborted(w) \/ errorMessage # UserAborted
    THEN [caught EXCEPT
            !.messages =
               MapMessage(@, id, [isLoading |-> FALSE, isThinking |-> FALSE,
                                  content |-> ErrorContent(errorMessage),
                                  tokens |-> ZeroTokens]),
            !.dbMessages =
               updateMessage(@, id, [content |-> ErrorContent(errorMessage),
                                     model |-> "selectedModel"]),
            !.exchanges[e].pc = "updateMessageError",
            !.exchanges[e].writes = @ + 1,
            !.exchanges[e].terminal = IF @ = "none" THEN "failed" ELSE @]
    ELSE Finally(caught, e)

\* lines 1055-1065: after the read loop, up to the await of updateMessage
Finalize(w, e) ==
  LET id == assistantMessageId(e)
      loc == w.exchanges[e].loc IN
  IF ~isMounted THEN [w EXCEPT !.exchanges[e].pc = "done"]
  ELSE IF ~RefAborted(w)
    THEN [w EXCEPT
            !.messages =
               MapMessage(@, id, [isLoading |-> FALSE, isThinking |-> FALSE,
                                  content |-> loc.currentVisibleContent,
                                  tokens |-> loc.finalTokenData]),
            !.dbMessages =
               updateMessage(@, id, [content |-> loc.currentVisibleContent,
                                     tokens |-> loc.finalTokenData,
                                     model |-> "selectedModel"]),
            !.exchanges[e].pc = "updateMessage",
            !.exchanges[e].writes = @ + 1,
            !.exchanges[e].terminal = IF @ = "none" THEN "completed" ELSE @]
    ELSE Finally(w, e)

\* lines 883-885: the top of while (true): leave the loop when unmounted or
\* aborted, otherwise call reader.read()
LoopTop(w, e) ==
  IF ~isMounted \/ RefAborted(w) THEN Finalize(w, e)
  ELSE [w EXCEPT !.exchanges[e].pc = "read"]

\* lines 891-1053: the for loop over lines (the first iteration, or the one
\* after the await of line 1042), which breaks at once when unmounted or aborted;
\* a done record suspends it in updateConversation, otherwise the while loop
\* goes round (reader.closed is a promise, so line 1052 never breaks)
Lines(w, e, lines) ==
  LET x == w.exchanges[e]
      id == assistantMessageId(e)
      live == LiveOf(w.messages, id)
      r == IF ~isMounted \/ RefAborted(w)
             THEN [loc |-> x.loc, msg |-> live, at |-> "end", rest |-> <<>>]
             ELSE RunLines(x.provider, lines, x.loc, live, isMounted,
                           DEFAULT_SYSTEM_PROMPT, Hello)
      ran == [w EXCEPT !.messages = MapMessage(@, id, r.msg),
                       !.exchanges[e].loc = r.loc,
                       !.exchanges[e].rest = r.rest]
  IN IF r.at = "await"
       THEN [ran EXCEPT
               !.dbConversations =
                  updateConversation(@, x.conv,
                    x.conversationTokenCount + r.loc.finalTokenData.total),
               !.exchanges[e].pc = "tokenCount"]
       ELSE LoopTop(ran, e)

\* controller.abort(reason): the first abort sets the reason
Abort(ctrls, c, reason) ==
  IF c = Null \/ ctrls[c].aborted THEN ctrls
  ELSE [ctrls EXCEPT ![c] = [aborted |-> TRUE, reason |-> reason]]

\* the exchange that owns controller c, if still running and not yet ended, is
\* cancelled; the visible content it has accumulated so far is noted
Cancel(exs, c, kind) ==
  IF c = Null \/ c \notin DOMAIN exs THEN exs
  ELSE IF exs[c].terminal = "none" /\ exs[c].pc # "done"
    THEN [exs EXCEPT ![c].terminal = kind,
                     ![c].visibleAtStop = exs[c].loc.currentVisibleContent]
    ELSE exs

\* the tokens of the user message (lines 764-768)
UserTokens ==
  LET n == simulateUserMessageTokens(Hello) + simulateUserMessageTokens(DEFAULT_SYSTEM_PROMPT)
  IN Tokens(n, 0, n)

\* handleSendMessage, online, up to its first await (lines 694-743); the chat
\* input sends only when no exchange is loading (ChatArea handleSend)
Send(limit) ==
  /\ isMounted
  /\ isOnline
  /\ ~isLoading
  /\ Len(exchanges) < limit
  /\ LET e == Len(exchanges) + 1
         isNew == currentConversationId = Null
         conv == IF isNew THEN e ELSE currentConversationId
         tokenCount == IF conversationsList[conv].listed
                         THEN conversationsList[conv].totalTokenCount ELSE 0
     IN /\ exchanges' = Append(exchanges, NewExchange(conv, isNew, tokenCount))
        /\ abortControllerRef' = e
        /\ dbConversations' =
             IF isNew
               THEN [dbConversations EXCEPT ![conv] = [exists |-> TRUE, totalTokenCount |-> 0]]
               ELSE dbConversations
        /\ conversationProvider' =
             IF isNew THEN [conversationProvider EXCEPT ![conv] = providerType]
             ELSE conversationProvider
  /\ isLoading' = TRUE
  /\ UNCHANGED <<providerType, isMounted, controllers, messages, currentConversationId,
                 conversationsList, dbMessages, effectPending, effectLoads, convLoads,
                 convDeletes, retryRejected, splitterVars, decoderVars, workerVars,
                 queueVars>>

\* a send of a visit that makes at most MaxExchanges of them
SendMessage == Send(MaxExchanges)

\* addConversation / updateConversation resolves (lines 738-776)
ConvResolve(e) ==
  /\ e \in DOMAIN exchanges
  /\ exchanges[e].pc = "conv"
  /\ LET x == exchanges[e]
         w == World
         shown == IF isMounted
                    THEN [w EXCEPT
                            !.currentConversationId = IF x.newConversation THEN x.conv ELSE @,
                            !.conversationsList[x.conv] =
                               IF x.newConversation
                                 THEN [listed |-> TRUE, totalTokenCount |-> 0] ELSE @,
                            !.effectPending = TRUE]
                    ELSE w
     IN Commit(IF x.newConversation /\ ~isMounted
                 THEN [w EXCEPT !.exchanges[e].pc = "done"]
                 ELSE [shown EXCEPT
                         !.dbMessages[userMessageId(e)] =
                            StoredMessage(x.conv, "user", Hello, UserTokens, SendTime(e)),
                         !.exchanges[e].pc = "userMsg"])

\* addMessage(userMessageForDb) resolves (lines 777-803)
UserMsgResolve(e) ==
  /\ e \in DOMAIN exchanges
  /\ exchanges[e].pc = "userMsg"
  /\ LET x == exchanges[e]
         w == World
     IN Commit(IF ~isMounted
                 THEN [w EXCEPT !.exchanges[e].pc = "done"]
                 ELSE [w EXCEPT
                         !.messages =
                            Append(@, LiveMessage(userMessageId(e), "user", Hello, FALSE,
                                                  UserTokens)),
                         !.dbMessages[assistantMessageId(e)] =
                            StoredMessage(x.conv, "assistant", <<>>, ZeroTokens,
                                          PlaceholderTime(SendTime(e))),
                         !.exchanges[e].pc = "asstMsg"])

\* addMessage(assistantMessagePlaceholderForDb) resolves (lines 804-871): the
\* placeholder joins the live list and fetch is called with the signal of the
\* controller the reference holds now; a null reference throws into the catch
AsstMsgResolve(e) ==
  /\ e \in DOMAIN exchanges
  /\ exchanges[e].pc = "asstMsg"
  /\ LET w == World
         placed == [w EXCEPT
                      !.messages =
                         Append(@, LiveMessage(assistantMessageId(e), "assistant", <<>>,
                                               TRUE, ZeroTokens))]
     IN Commit(IF ~isMounted
                 THEN [w EXCEPT !.exchanges[e].pc = "done"]
                 ELSE IF abortControllerRef = Null
                   THEN Catch(placed, e, NullSignal)
                   ELSE [placed EXCEPT !.exchanges[e].signal = abortControllerRef,
                                       !.exchanges[e].pc = "fetch"])

\* fetch settles (lines 866-885): rejected with the abort reason when its signal
\* is aborted, else a network error, a non-2xx status, a response without a body
\* or a streaming body
FetchResolve(e, outcome, body) ==
  /\ e \in DOMAIN exchanges
  /\ exchanges[e].pc = "fetch"
  /\ LET x == exchanges[e]
         w == World
     IN Commit(IF controllers[x.signal].aborted
                 THEN Catch(w, e, controllers[x.signal].reason)
               ELSE IF outcome = "network" THEN Catch(w, e, FailedToFetch)
               ELSE IF outcome = "nobody" THEN Catch(w, e, BodyNull)
               ELSE IF outcome = "status" THEN [w EXCEPT !.exchanges[e].pc = "errorText"]
               ELSE LoopTop([w EXCEPT !.exchanges[e].response = body,
                                      !.exchanges[e].body = body], e))

\* response.text() of a non-2xx response settles (lines 874-875)
ErrorTextResolve(e, errorText) ==
  /\ e \in DOMAIN exchanges
  /\ exchanges[e].pc = "errorText"
  /\ LET x == exchanges[e]
     IN Commit(IF controllers[x.signal].aborted
                 THEN Catch(World, e, controllers[x.signal].reason)
                 ELSE Catch(World, e, ApiError \o errorText))

\* reader.read() rejects because the connection broke in mid-stream (line 885)
ReadFail(e) ==
  /\ e \in DOMAIN exchanges
  /\ exchanges[e].pc = "read"
  /\ exchanges[e].body # <<>>
  /\ ~controllers[exchanges[e].signal].aborted
  /\ Commit(Catch(World, e, NetworkError))

\* reader.read() settles (lines 885-1053): it rejects with the abort reason when
\* the signal of the fetch is aborted (unless the body had already been closed),
\* reports done at the end of the body, or returns the next chunk
ReadResolve(e, closed) ==
  /\ e \in DOMAIN exchanges
  /\ exchanges[e].pc = "read"
  /\ LET x == exchanges[e]
         w == World
     IN Commit(IF controllers[x.signal].aborted /\ ~(x.body = <<>> /\ closed)
                 THEN Catch(w, e, controllers[x.signal].reason)
               ELSE IF x.body = <<>> THEN Finalize(w, e)
               ELSE Lines([w EXCEPT !.exchanges[e].body = Tail(x.body)], e,
                          LinesOf(Head(x.body))))

\* updateConversation(totalTokenCount) of line 1042 resolves: lines 1043-1045,
\* then the for loop goes on with the lines left
TokenCountResolve(e) ==
  /\ e \in DOMAIN exchanges
  /\ exchanges[e].pc = "tokenCount"
  /\ LET x == exchanges[e]
         w == World
         newTotalTokenCount == x.conversationTokenCount + x.loc.finalTokenData.total
         listed == IF isMounted
                     THEN [w EXCEPT
                             !.conversationsList[x.conv].totalTokenCount =
                                IF w.conversationsList[x.conv].listed
                                  THEN newTotalTokenCount ELSE @,
                             !.effectPending = TRUE]
                     ELSE w
     IN Commit(Lines(listed, e, x.rest))

\* updateMessage of line 1065 resolves: updateConversation(updatedAt) is called
UpdateMessageResolve(e) ==
  /\ e \in DOMAIN exchanges
  /\ exchanges[e].pc = "updateMessage"
  /\ Commit([World EXCEPT !.exchanges[e].pc = "updateConversation"])

\* updateConversation of line 1068 resolves: finally
UpdateConversationResolve(e) ==
  /\ e \in DOMAIN exchanges
  /\ exchanges[e].pc = "updateConversation"
  /\ Commit(Finally(World, e))

\* updateMessage of line 1087 resolves: the alert of lines 1088-1090, finally
UpdateMessageErrorResolve(e, hidden) ==
  /\ e \in DOMAIN exchanges
  /\ exchanges[e].pc = "updateMessageError"
  /\ LET w == World
         alerts == isMounted /\ ~hidden /\ ~RefAborted(w)
     IN Commit(Finally([w EXCEPT !.exchanges[e].alerted = alerts], e))

\* handleStopGeneration (lines 1225-1237); the Stop button is shown while isLoading
StopGeneration ==
  /\ isMounted
  /\ isLoading
  /\ abortControllerRef # Null
  /\ controllers' = Abort(controllers, abortControllerRef, StopReason)
  /\ exchanges' = Cancel(exchanges, abortControllerRef, "stop")
  /\ messages' =
       [i \in 1..Len(messages) |->
          IF messages[i].isLoading /\ messages[i].role = "assistant"
            THEN [messages[i] EXCEPT !.isLoading = FALSE, !.isThinking = FALSE,
                                     !.content = @ \o StopMarker]
            ELSE messages[i]]
  /\ isLoading' = FALSE
  /\ abortControllerRef' = Null
  /\ UNCHANGED <<providerType, isMounted, currentConversationId, conversationsList,
                 dbConversations, dbMessages, effectPending, effectLoads, convLoads,
                 splitterVars, decoderVars, otherVars, workerVars, queueVars>>

\* handleNewChat (lines 1103-1122); the New Chat button is disabled while isLoading
NewChat ==
  /\ isMounted
  /\ ~isLoading
  /\ controllers' = Abort(controllers, abortControllerRef, NewChatReason)
  /\ exchanges' = Cancel(exchanges, abortControllerRef, "newChat")
  /\ abortControllerRef' = Null
  /\ messages' = <<>>
  /\ currentConversationId' = Null
  /\ isLoading' = FALSE
  /\ effectPending' = (effectPending \/ currentConversationId # Null)
  /\ UNCHANGED <<providerType, isMounted, conversationsList, dbConversations, dbMessages,
                 effectLoads, convLoads, splitterVars, decoderVars, otherVars, workerVars,
                 queueVars>>

\* handleLoadConversation up to its await (lines 1124-1135); the sidebar loads a
\* conversation only when not loading and it is not the current one
LoadConversation(conv) ==
  /\ isMounted
  /\ ~isLoading
  /\ conversationsList[conv].listed
  /\ currentConversationId # conv
  /\ Len(convLoads) < MaxLoads
  /\ controllers' = Abort(controllers, abortControllerRef, LoadReason)
  /\ exchanges' = Cancel(exchanges, abortControllerRef, "load")
  /\ abortControllerRef' = Null
  /\ isLoading' = TRUE
  /\ convLoads' = Append(convLoads, [conv |-> conv,
                                     messages |-> getMessagesForConversation(conv)])
  /\ UNCHANGED <<providerType, isMounted, messages, currentConversationId,
                 conversationsList, dbConversations, dbMessages, effectPending,
                 effectLoads, splitterVars, decoderVars, otherVars, workerVars, queueVars>>

\* the reads of handleLoadConversation resolve (lines 1137-1158); no
\* conversation is deleted in the visits that load one, so convoDetails is found
LoadResolve ==
  /\ convLoads # <<>>
  /\ convLoads' = Tail(convLoads)
  /\ IF isMounted
       THEN /\ currentConversationId' = Head(convLoads).conv
            /\ messages' = Head(convLoads).messages
            /\ effectPending' = (effectPending \/ currentConversationId # Head(convLoads).conv)
            /\ isLoading' = FALSE
       ELSE UNCHANGED <<currentConversationId, messages, effectPending, isLoading>>
  /\ UNCHANGED <<providerType, isMounted, abortControllerRef, controllers,
                 conversationsList, dbConversations, dbMessages, exchanges, effectLoads,
                 splitterVars, decoderVars, otherVars, workerVars, queueVars>>

\* deleteConversationAndMessages (part_004 204-209): one read-write transaction
\* on both tables deletes the messages of the conversation and its record
Deleted(db, conv) ==
  [conversations |-> [db.conversations EXCEPT ![conv] = [exists |-> FALSE, totalTokenCount |-> 0]],
   chatMessages |-> [m \in MessageIds |->
                       IF db.chatMessages[m].exists /\ db.chatMessages[m].conversationId = conv
                         THEN NoMessage ELSE db.chatMessages[m]]]

\* handleDeleteConversation up to its await (lines 1161-1163); the delete button
\* of a listed conversation does nothing while isLoading (LeftSidebar.tsx 106-114)
DeleteConversation(conv) ==
  /\ isMounted
  /\ ~isLoading
  /\ conversationsList[conv].listed
  /\ Len(convDeletes) < MaxDeletes
  /\ LET db == Deleted([conversations |-> dbConversations, chatMessages |-> dbMessages], conv)
     IN /\ dbConversations' = db.conversations
        /\ dbMessages' = db.chatMessages
  \* currentConversationId === conversationIdToDelete is decided by the closure
  /\ convDeletes' = Append(convDeletes, [conv |-> conv,
                                         current |-> currentConversationId = conv])
  /\ UNCHANGED <<providerType, isMounted, isLoading, abortControllerRef, controllers,
                 messages, currentConversationId, conversationsList, exchanges,
                 effectPending, effectLoads, convLoads, conversationProvider,
                 retryRejected, splitterVars, decoderVars, workerVars, queueVars>>

\* the transaction has committed (lines 1164-1168): the conversation leaves the
\* list, and handleNewChat runs when it was the current one
DeleteResolve ==
  /\ convDeletes # <<>>
  /\ convDeletes' = Tail(convDeletes)
  /\ LET del == Head(convDeletes)
         newChat == isMounted /\ del.current
     IN /\ conversationsList' =
             IF isMounted
               THEN [conversationsList EXCEPT ![del.conv] = [listed |-> FALSE,
                                                            totalTokenCount |-> 0]]
               ELSE conversationsList
        /\ controllers' =
             IF newChat THEN Abort(controllers, abortControllerRef, NewChatReason)
             ELSE controllers
        /\ exchanges' =
             IF newChat THEN Cancel(exchanges, abortControllerRef, "newChat") ELSE exchanges
        /\ abortControllerRef' = IF newChat THEN Null ELSE abortControllerRef
        /\ messages' = IF newChat THEN <<>> ELSE messages
        /\ currentConversationId' = IF newChat THEN Null ELSE currentConversationId
        /\ isLoading' = IF newChat THEN FALSE ELSE isLoading
        /\ effectPending' = (effectPending \/ isMounted)
  /\ UNCHANGED <<providerType, isMounted, dbConversations, dbMessages, effectLoads,
                 convLoads, conversationProvider, retryRejected, splitterVars,
                 decoderVars, workerVars, queueVars>>

\* App unmounts (lines 152-155): every exchange still running ends here
Unmount ==
  /\ isMounted
  /\ isMounted' = FALSE
  /\ controllers' = Abort(controllers, abortControllerRef, AbortError)
  /\ exchanges' =
       [e \in DOMAIN exchanges |->
          IF exchanges[e].terminal = "none" /\ exchanges[e].pc # "done"
            THEN [exchanges[e] EXCEPT !.terminal = "unmount",
                                      !.visibleAtStop = exchanges[e].loc.currentVisibleContent]
            ELSE exchanges[e]]
  /\ UNCHANGED <<providerType, isLoading, abortControllerRef, messages,
                 currentConversationId, conversationsList, dbConversations, dbMessages,
                 effectPending, effectLoads, convLoads, splitterVars, decoderVars, otherVars,
                 workerVars, queueVars>>

\* the effect on [currentConversationId, conversationsList, providerState.type,
\* providerState.url] runs (lines 580-616): it sets the provider to the one the
\* active conversation was created with, which makes the effect run once more,
\* and starts loadMessages() for it; with no conversation it clears the list
RunEffect ==
  /\ effectPending
  /\ LET sync == /\ isMounted /\ currentConversationId # Null
                 /\ conversationsList[currentConversationId].listed
                 /\ conversationProvider[currentConversationId] # providerType
     IN /\ providerType' = IF sync THEN conversationProvider[currentConversationId]
                           ELSE providerType
        /\ effectPending' = sync
  /\ IF isMounted /\ currentConversationId # Null
       THEN IF conversationsList[currentConversationId].listed
              THEN /\ Len(effectLoads) < MaxLoads
                   /\ effectLoads' =
                        Append(effectLoads, getMessagesForConversation(currentConversationId))
                   /\ UNCHANGED messages
              ELSE UNCHANGED <<effectLoads, messages>>
       ELSE /\ messages' = IF isMounted THEN <<>> ELSE messages
            /\ UNCHANGED effectLoads
  /\ UNCHANGED <<isMounted, isLoading, abortControllerRef, controllers,
                 currentConversationId, conversationsList, dbConversations, dbMessages,
                 exchanges, convLoads, splitterVars, decoderVars, otherVars, workerVars,
                 queueVars>>

\* handleProviderTypeChange (lines 313-338): the provider select of the settings
\* panel sets the global provider type and its default URL
ProviderTypeChange(newType) ==
  /\ isMounted
  /\ newType # providerType
  /\ providerType' = newType
  /\ effectPending' = TRUE
  /\ UNCHANGED <<isMounted, isLoading, abortControllerRef, controllers, messages,
                 currentConversationId, conversationsList, dbConversations, dbMessages,
                 exchanges, effectLoads, convLoads, splitterVars, decoderVars, otherVars,
                 workerVars, queueVars>>

\* loadMessages() of the effect resolves (lines 604-607): setMessages(msgs)
EffectResolve ==
  /\ effectLoads # <<>>
  /\ effectLoads' = Tail(effectLoads)
  /\ messages' = IF isMounted THEN Head(effectLoads) ELSE messages
  /\ UNCHANGED <<providerType, isMounted, isLoading, abortControllerRef, controllers,
                 currentConversationId, conversationsList, dbConversations, dbMessages,
                 exchanges, effectPending, convLoads, splitterVars, decoderVars, otherVars,
                 workerVars, queueVars>>

(***************************************************************************)
(* The offline branch of handleSendMessage (App.tsx 629-692) and the page  *)
(* reload.                                                                 *)
(***************************************************************************)
\* the id of the live message shown for a queued message (queuedMessageId)
queuedMessageId(q) == 2 * MaxSends + q

\* lines 663-686: offlineQueue.add, the queued message joins the live list with
\* isLoading set, a new conversation becomes the current one
Enqueue(conv, isNew) ==
  /\ addToQueue(conv, Hello)
  /\ messages' = Append(messages, LiveMessage(queuedMessageId(nextQueuedId), "user", Hello,
                                              TRUE, ZeroTokens))
  /\ currentConversationId' = IF isNew THEN conv ELSE currentConversationId
  /\ effectPending' = (effectPending \/ isNew)

\* handleSendMessage while networkStatus.isOnline is false: with no current
\* conversation it calls addConversation and waits for it (line 656), otherwise
\* it queues the message for the current conversation and returns
SendOffline ==
  /\ isMounted
  /\ ~isOnline
  /\ nextQueuedId + Len(offlineSends) <= MaxItems
  /\ IF currentConversationId = Null
       THEN LET conv == offlineConversationId(nextQueuedId + Len(offlineSends))
            IN /\ dbConversations' =
                    [dbConversations EXCEPT ![conv] = [exists |-> TRUE, totalTokenCount |-> 0]]
               /\ conversationProvider' = [conversationProvider EXCEPT ![conv] = providerType]
               /\ offlineSends' = Append(offlineSends, conv)
               /\ UNCHANGED <<messages, currentConversationId, effectPending,
                              localStorageQueue, offlineQueue, nextQueuedId, isOnline,
                              isProcessingQueue, hookMounted, retryingIds, inFlight,
                              retryEvents, removedIds>>
       ELSE /\ Enqueue(currentConversationId, FALSE)
            /\ UNCHANGED <<dbConversations, offlineSends, conversationProvider>>
  /\ UNCHANGED <<providerType, isMounted, isLoading, abortControllerRef, controllers,
                 conversationsList, dbMessages, exchanges, effectLoads, convLoads,
                 convDeletes, retryRejected, splitterVars, decoderVars, workerVars>>

\* addConversation of line 656 resolves (lines 659-686): the conversation joins
\* the list and the message is queued for it
OfflineConvResolve ==
  /\ isMounted
  /\ offlineSends # <<>>
  /\ offlineSends' = Tail(offlineSends)
  /\ conversationsList' =
       [conversationsList EXCEPT ![Head(offlineSends)] = [listed |-> TRUE, totalTokenCount |-> 0]]
  /\ Enqueue(Head(offlineSends), TRUE)
  /\ UNCHANGED <<providerType, isMounted, isLoading, abortControllerRef, controllers,
                 dbConversations, dbMessages, exchanges, effectLoads, convLoads,
                 splitterVars, decoderVars, otherVars, workerVars>>

\* the page is reloaded between exchanges: pending calls are dropped, App and
\* the indicator mount again with their initial state, load the saved queue and
\* the stored conversations (loadInitialData); the modal is closed
Reload ==
  /\ isMounted
  /\ \A e \in DOMAIN exchanges : exchanges[e].pc = "done"
  /\ hookMounted' = [r \in Readers |-> r # Manager]
  /\ offlineQueue' = [r \in Readers |-> IF r = Manager THEN <<>> ELSE loadOfflineQueue(<<>>)]
  /\ isProcessingQueue' = [r \in Readers |-> FALSE]
  /\ retryingIds' = {}
  /\ inFlight' = {}
  /\ offlineSends' = <<>>
  /\ messages' = <<>>
  /\ currentConversationId' = Null
  /\ isLoading' = FALSE
  /\ abortControllerRef' = Null
  /\ conversationsList' =
       [c \in ConversationIds |->
          [listed |-> dbConversations[c].exists,
           totalTokenCount |-> dbConversations[c].totalTokenCount]]
  /\ effectPending' = FALSE
  /\ effectLoads' = <<>>
  /\ convLoads' = <<>>
  /\ UNCHANGED <<isOnline, localStorageQueue, nextQueuedId, retryEvents, removedIds,
                 providerType, isMounted, controllers, dbConversations, dbMessages,
                 exchanges, splitterVars, decoderVars, otherVars, workerVars>>

\* the session with a conversation stored by an earlier visit, listed and shown
SessionStored ==
  /\ isMounted = TRUE
  /\ isLoading = FALSE
  /\ abortControllerRef = Null
  /\ controllers = [c \in ExchangeIds |-> [aborted |-> FALSE, reason |-> NoReason]]
  /\ messages = <<>>
  /\ currentConversationId = StoredConversation
  /\ conversationsList =
       [c \in ConversationIds |-> [listed |-> c = StoredConversation, totalTokenCount |-> 0]]
  /\ dbConversations =
       [c \in ConversationIds |-> [exists |-> c = StoredConversation, totalTokenCount |-> 0]]
  /\ dbMessages = [m \in MessageIds |-> NoMessage]
  /\ exchanges = <<>>
  /\ effectPending = FALSE
  /\ effectLoads = <<>>
  /\ convLoads = <<>>
  /\ convDeletes = <<>>
  /\ conversationProvider =
       [c \in ConversationIds |-> IF c = StoredConversation THEN providerType ELSE NoProvider]
  /\ retryRejected = {}
  /\ WorkerIdle

(***************************************************************************)
(* The splitter fed fragment by fragment.                                  *)
(***************************************************************************)
SplitterIdle ==
  /\ spSegments = <<>>
  /\ spFragments = <<>>
  /\ spFed = 0
  /\ spState = SplitterInit

DecoderIdle ==
  /\ dcProvider = OPENAI
  /\ dcPayload = <<>>
  /\ dcChunks = <<>>
  /\ dcDeltas = <<>>
  /\ dcLocal = LocalInit

InitSplitter ==
  /\ spSegments \in Segmented
  /\ spFragments \in Cuttings(Render(spSegments))
  /\ spFed = 0
  /\ spState = SplitterInit
  /\ DecoderIdle
  /\ QueueIdle
  /\ SessionIdle

\* one delta's content arrives and goes through the think-tag loop
FeedFragment ==
  /\ spFragments # <<>>
  /\ spState' = SplitFragment(Head(spFragments), spState)
  /\ spFragments' = Tail(spFragments)
  /\ spFed' = spFed + 1
  /\ UNCHANGED <<spSegments, decoderVars, otherVars, workerVars, queueVars, sessionVars>>

NextSplitter == FeedFragment

SpecSplitter == InitSplitter /\ [][NextSplitter]_vars

\* C5: for every content text with well-formed <think> spans and every way of
\* cutting it into fragments, once all fragments are fed the visible output is
\* the text without its spans and the thinking output is the spans' inner text.
C5_RechunkingInvariance ==
  spFragments = <<>> =>
    /\ spState.currentVisibleContent = TextOf(spSegments, "v")
    /\ spState.currentThinkingContent = TextOf(spSegments, "t")

(***************************************************************************)
(* The read loop fed chunk by chunk with nothing cancelling it.            *)
(***************************************************************************)
InitDecoder ==
  /\ dcProvider \in ProviderTypes
  /\ dcPayload \in Payloads(dcProvider)
  /\ dcChunks \in Cuttings(dcPayload)
  /\ dcDeltas = <<>>
  /\ dcLocal = LocalInit
  /\ SplitterIdle
  /\ QueueIdle
  /\ SessionIdle

\* reader.read() returns the next chunk and the loop body processes its lines
DecodeNext ==
  /\ dcChunks # <<>>
  /\ dcDeltas' = dcDeltas \o EmittedDeltas(dcProvider, LinesOf(Head(dcChunks)))
  /\ dcLocal' = DecodeChunk(dcProvider, LinesOf(Head(dcChunks)), dcLocal,
                            DEFAULT_SYSTEM_PROMPT, Hello)
  /\ dcChunks' = Tail(dcChunks)
  /\ UNCHANGED <<dcProvider, dcPayload, splitterVars, otherVars, workerVars, queueVars,
                 sessionVars>>

NextDecoder == DecodeNext

SpecDecoder == InitDecoder /\ [][NextDecoder]_vars

\* C4: chunk-boundary independence: however the body is cut into chunks, the
\* content deltas emitted, concatenated, are those of the body fed as one chunk.
C4_ChunkBoundaryIndependence ==
  dcChunks = <<>> => dcDeltas = EmittedDeltas(dcProvider, LinesOf(dcPayload))

(***************************************************************************)
(* The offline queue and its readers.                                      *)
(***************************************************************************)
InitQueue ==
  /\ QueueIdle
  /\ SplitterIdle
  /\ DecoderIdle
  /\ providerType = OLLAMA
  /\ (SessionStart \/ SessionStored)

NextQueue ==
  \/ NetworkChange
  \/ SendOffline
  \/ OfflineConvResolve
  \/ \E id \in QueuedIds : removeFromQueue(id)
  \/ clearQueue
  \/ \E id \in QueuedIds : retryMessage(id)
  \/ \E r \in Readers : AutoRetry(r)
  \/ \E call \in inFlight, ok \in BOOLEAN : RetrySettle(call, ok)
  \/ ManagerOpen
  \/ ManagerClose
  \/ Reload

SpecQueue == InitQueue /\ [][NextQueue]_vars

\* C3: a queued message is removed on its third failure: no reader keeps a
\* message whose retry counter has reached 3, and no send is in flight for a
\* message whose counter had reached 3 when the send started (no fourth attempt).
C3_ThreeAttempts ==
  /\ \A r \in Readers : \A i \in 1..Len(offlineQueue[r]) :
        offlineQueue[r][i].retries < MaxRetries
  /\ \A call \in inFlight : call.message.retries < MaxRetries

\* C6: every mounted reader of the queue holds exactly the saved items.
C6_ReadersMatchStorage ==
  \A r \in Readers : hookMounted[r] => offlineQueue[r] = localStorageQueue.queue

\* C7: at most one drain is in progress at any time.
C7_NoOverlappingDrains ==
  Cardinality({r \in Readers : isProcessingQueue[r]}) <= 1

(***************************************************************************)
(* The chat session.                                                       *)
(***************************************************************************)
InitSession ==
  /\ providerType \in ProviderTypes
  /\ SessionStart
  /\ SplitterIdle
  /\ DecoderIdle
  /\ QueueIdle

NextSession ==
  \/ SendMessage
  \/ \E e \in ExchangeIds : ConvResolve(e)
  \/ \E e \in ExchangeIds : UserMsgResolve(e)
  \/ \E e \in ExchangeIds : AsstMsgResolve(e)
  \/ \E e \in ExchangeIds, outcome \in {"ok", "status", "network", "nobody"},
        body \in Bodies(providerType) : FetchResolve(e, outcome, body)
  \/ \E e \in ExchangeIds, errorText \in ErrorTexts : ErrorTextResolve(e, errorText)
  \/ \E e \in ExchangeIds : ReadFail(e)
  \/ \E e \in ExchangeIds, closed \in BOOLEAN : ReadResolve(e, closed)
  \/ \E e \in ExchangeIds : TokenCountResolve(e)
  \/ \E e \in ExchangeIds : UpdateMessageResolve(e)
  \/ \E e \in ExchangeIds : UpdateConversationResolve(e)
  \/ \E e \in ExchangeIds, hidden \in BOOLEAN : UpdateMessageErrorResolve(e, hidden)
  \/ StopGeneration
  \/ NewChat
  \/ \E conv \in ConversationIds : LoadConversation(conv)
  \/ LoadResolve
  \/ Unmount
  \/ RunEffect
  \/ EffectResolve

SpecSession == InitSession /\ [][NextSession]_vars

\* content of the form `Error: ...`
IsErrorContent(content) == Len(content) >= 1 /\ content[1] = "Error: "

\* the exchange is running and has not been ended or cancelled
Active(exs, e) == exs[e].pc # "done" /\ exs[e].terminal = "none"

\* C1: when the user stops generation after the exchange has accumulated some
\* visible content, the assistant message finally persisted holds that content
\* followed by the stop marker, and the live message is neither loading nor
\* thinking.
C1_StoppedContentPersisted ==
  \A e \in DOMAIN exchanges :
    (/\ exchanges[e].terminal = "stop"
     /\ exchanges[e].visibleAtStop # <<>>
     /\ exchanges[e].pc = "done"
     /\ isMounted
     /\ dbMessages[assistantMessageId(e)].exists) =>
      /\ dbMessages[assistantMessageId(e)].content =
           exchanges[e].visibleAtStop \o StopMarker
      /\ \A i \in 1..Len(messages) :
           messages[i].id = assistantMessageId(e) =>
             ~messages[i].isLoading /\ ~messages[i].isThinking

\* C2: a cancelled exchange (stop, new chat, load of another conversation) is
\* not handled as a failure: neither the live nor the persisted content of its
\* assistant message is an error string and no failure alert is raised for it.
C2_CancellationIsNotFailure ==
  \A e \in DOMAIN exchanges :
    (exchanges[e].terminal \in {"stop", "newChat", "load"} /\ exchanges[e].signal # Null) =>
      /\ ~IsErrorContent(dbMessages[assistantMessageId(e)].content)
      /\ \A i \in 1..Len(messages) :
           messages[i].id = assistantMessageId(e) => ~IsErrorContent(messages[i].content)
      /\ ~exchanges[e].alerted

\* C8: once an exchange has reached a terminal state, no later step of its
\* send handler changes its live message or writes its message in the store.
C8_NoMutationAfterTerminal ==
  [][\A e \in DOMAIN exchanges :
       (exchanges[e].terminal # "none" /\ exchanges'[e] # exchanges[e]) =>
         /\ dbMessages'[assistantMessageId(e)] = dbMessages[assistantMessageId(e)]
         /\ LiveOf(messages', assistantMessageId(e)) =
              LiveOf(messages, assistantMessageId(e))]_vars

\* C9: at most one exchange is active against the live message list, every
\* active exchange belongs to the conversation the UI shows (an exchange in
\* flight has been cancelled before a new chat or another conversation is
\* shown), and no step of a cancelled exchange changes a message of a
\* conversation the UI does not show.
C9_OneActiveExchange ==
  [][/\ Cardinality({e \in DOMAIN exchanges' : Active(exchanges', e)}) <= 1
     /\ \A e \in DOMAIN exchanges' :
          Active(exchanges', e) =>
            \/ exchanges'[e].pc = "conv"
            \/ exchanges'[e].conv = currentConversationId'
            \/ ~isMounted'
     /\ \A e \in DOMAIN exchanges :
          (/\ exchanges[e].terminal \in Cancellations
           /\ exchanges'[e] # exchanges[e]
           /\ exchanges[e].conv # currentConversationId) =>
            /\ dbMessages'[assistantMessageId(e)] = dbMessages[assistantMessageId(e)]
            /\ LiveOf(messages', assistantMessageId(e)) =
                 LiveOf(messages, assistantMessageId(e))]_vars

\* C10: when the final record of the response supplies the prompt and
\* completion counts 12 and 34, the finalized assistant message records them
\* with total 46, or with the provider's total (50) when the record has one.
C10_TokenAccounting ==
  \A e \in DOMAIN exchanges :
    LET x == exchanges[e]
        sent == Concat(x.response)
        supplied == \/ HasField(sent, "prompt_eval_count=12") /\ HasField(sent, "eval_count=34")
                    \/ HasField(sent, "prompt_tokens=12") /\ HasField(sent, "completion_tokens=34")
    IN (x.terminal = "completed" /\ x.pc = "done" /\ supplied) =>
         dbMessages[assistantMessageId(e)].tokens =
           Tokens(12, 34, IF HasField(sent, "total_tokens=50") THEN 50 ELSE 46)

\* the stored record of the exchange's assistant message
Stored(e) == dbMessages[assistantMessageId(e)]

\* the exchange has run to its end as a success
Completed(e) == exchanges[e].terminal = "completed" /\ exchanges[e].pc = "done"

\* all lines of the response the exchange received, in order
ResponseLines(e) ==
  Concat([i \in 1..Len(exchanges[e].response) |-> LinesOf(exchanges[e].response[i])])

\* no line of the response carries a usage figure
NoUsage(e) == \A f \in NumberFields : ~HasField(Concat(exchanges[e].response), f)

\* C11: on a successful completion whose response supplied no usage figures
\* (whether it ended with a finish reason, with data: [DONE] or with the end of
\* the body), the stored tokens are the estimator's: prompt from the system
\* prompt and the user text, completion from the visible content, total their sum.
C11_EstimatorFallback ==
  \A e \in DOMAIN exchanges :
    LET promptTokens == simulateUserMessageTokens(DEFAULT_SYSTEM_PROMPT)
                          + simulateUserMessageTokens(Hello)
        completionTokens == simulateUserMessageTokens(Stored(e).content)
    IN (Completed(e) /\ NoUsage(e)) =>
         Stored(e).tokens = Tokens(promptTokens, completionTokens,
                                   promptTokens + completionTokens)

\* C12: an exchange that has returned, and whose assistant message was created,
\* has written that message's final values to the store exactly once; no
\* exchange ever writes them twice.
C12_FinalValuesWrittenOnce ==
  \A e \in DOMAIN exchanges :
    /\ exchanges[e].writes <= 1
    /\ (exchanges[e].pc = "done" /\ Stored(e).exists) => exchanges[e].writes = 1

\* a data: line, other than the sentinel, whose JSON does not parse
Malformed(line) ==
  /\ Len(line) >= 1
  /\ line[1] = "data: "
  /\ From(line, 2) # <<"[DONE]">>
  /\ ~ParsesAsJSON(From(line, 2))

\* the response has a malformed line
HasMalformedLine(e) ==
  \E i \in 1..Len(ResponseLines(e)) : Malformed(ResponseLines(e)[i])

\* what the read loop accumulates from the response without its malformed lines
WithoutMalformed(e) ==
  DecodeChunk(providerType,
              SelectSeq(ResponseLines(e), LAMBDA line : ~Malformed(line)),
              LocalInit, DEFAULT_SYSTEM_PROMPT, Hello)

\* C18: a malformed line never makes the exchange fail (an exchange whose
\* response has one fails only when a read of the body is rejected), and on
\* completion the stored content and usage are those of the same response
\* without the malformed line: the lines before and after it are processed.
C18_MalformedLineSkipped ==
  \A e \in DOMAIN exchanges :
    HasMalformedLine(e) =>
      /\ exchanges[e].terminal = "failed" => exchanges[e].errorMessage = NetworkError
      /\ Completed(e) =>
           /\ Stored(e).content = WithoutMalformed(e).currentVisibleContent
           /\ Stored(e).tokens = WithoutMalformed(e).finalTokenData

C18_Witness ==
  \E e \in DOMAIN exchanges :
    /\ HasMalformedLine(e)
    /\ Completed(e)
    /\ Stored(e).content = <<"a", "a">>
    /\ Stored(e).tokens = Tokens(12, 34, 46)

RECURSIVE UpToTermination(_, _)
\* the lines up to and including the first that ends the stream: a data: [DONE]
\* line or a record with done / a finish reason
UpToTermination(provider, lines) ==
  IF lines = <<>> THEN <<>>
  ELSE LET line == Head(lines)
           ends == \/ LineKind(line) = "sentinel"
                   \/ /\ LineKind(line) = "record"
                      /\ EndsExchange(provider, StreamPart(provider, JsonData(line)))
       IN IF ends THEN <<line>> ELSE <<line>> \o UpToTermination(provider, Tail(lines))

\* C19: the content of the message, live and stored, never holds more than the
\* deltas that arrived up to the logical end of the stream: a record after a
\* finish reason, a done flag or data: [DONE] adds nothing.
C19_NothingAfterTermination ==
  \A e \in DOMAIN exchanges :
    LET expected == EmittedDeltas(providerType, UpToTermination(providerType, ResponseLines(e)))
    IN exchanges[e].terminal \in {"none", "completed"} =>
         /\ Len(exchanges[e].loc.currentVisibleContent) <= Len(expected)
         /\ Completed(e) => Stored(e).content = expected

\* C20: with the Ollama provider every non-empty line of the NDJSON body is
\* parsed: a completed exchange whose response was {content a} {content b}
\* {done} has stored the content "ab".
C20_DecoderByFraming ==
  \A e \in DOMAIN exchanges :
    (/\ providerType = OLLAMA
     /\ Completed(e)
     /\ exchanges[e].response = <<NdDelta(<<"a">>), NdDelta(<<"b">>) \o NdDone>>) =>
      Stored(e).content = <<"a", "b">>

\* C21: no record of the message store has the property isLoading or isThinking:
\* neither the objects handed to addMessage nor the changes handed to
\* updateMessage carry a transient flag.
C21_NoTransientFlagsStored ==
  \A m \in MessageIds :
    dbMessages[m].exists => dbMessages[m].keys \cap TransientKeys = {}

C21_Witness ==
  \E e \in DOMAIN exchanges :
    /\ Completed(e)
    /\ dbMessages[userMessageId(e)].exists
    /\ Stored(e).keys = ForDb(MessageKeys("assistant"))
    /\ LiveOf(messages, assistantMessageId(e)).isThinking = FALSE

\* C22: after a successful completion the stored assistant message holds the
\* final visible content, the accumulated thinking content (when there is any)
\* and the final usage, and the live message is neither loading nor thinking.
C22_FinalizedMessage ==
  [][\A e \in DOMAIN exchanges' :
       (exchanges'[e].terminal = "completed" /\ exchanges'[e].writes = 1 /\
        (e \notin DOMAIN exchanges \/ exchanges[e].writes = 0)) =>
         LET loc == exchanges'[e].loc
             stored == dbMessages'[assistantMessageId(e)]
         IN /\ stored.content = loc.currentVisibleContent
            /\ stored.tokens = loc.finalTokenData
            /\ loc.currentThinkingContent # <<>> => "thinkingContent" \in stored.keys
            /\ \A i \in 1..Len(messages') :
                 messages'[i].id = assistantMessageId(e) =>
                   ~messages'[i].isLoading /\ ~messages'[i].isThinking]_vars

\* C23: an exchange that fails (network error, non-2xx response, response
\* without a body, read error) ends as failed: the stored content is "Error: ",
\* the first 200 characters of the error text and "...", the stored usage is
\* zero, the conversation and the user message stay in the store, and at the
\* step of the failure the live message shows the same content with zero usage
\* and is neither loading nor thinking.
C23_FailureHandling ==
  [][\A e \in DOMAIN exchanges' :
       exchanges'[e].terminal = "failed" =>
         LET x == exchanges'[e]
             stored == dbMessages'[assistantMessageId(e)]
             n == Len(stored.content)
             cut == IF Len(x.errorMessage) > 200 THEN 200 ELSE Len(x.errorMessage)
         IN /\ stored.exists
            /\ n = cut + 2
            /\ stored.content[1] = "Error: "
            /\ stored.content[n] = "..."
            /\ \A i \in 1..cut : stored.content[i + 1] = x.errorMessage[i]
            /\ stored.tokens = ZeroTokens
            /\ dbConversations'[x.conv].exists
            /\ dbMessages'[userMessageId(e)].exists
            /\ exchanges[e].terminal = "none" =>
                 \A i \in 1..Len(messages') :
                   messages'[i].id = assistantMessageId(e) =>
                     /\ messages'[i].content = stored.content
                     /\ messages'[i].tokens = ZeroTokens
                     /\ ~messages'[i].isLoading /\ ~messages'[i].isThinking]_vars

C23_Witness ==
  \E e \in DOMAIN exchanges :
    /\ exchanges[e].terminal = "failed"
    /\ exchanges[e].pc = "done"
    /\ Len(exchanges[e].errorMessage) > 200
    /\ Len(dbMessages[assistantMessageId(e)].content) = 202
    /\ LiveOf(messages, assistantMessageId(e)).content = dbMessages[assistantMessageId(e)].content

\* C25: a send of "Hello" answered by the two content fragments "Hi the" and
\* "re!" and a final record without usage completes with the visible content
\* "Hithere!", no thinking content, and the estimator's usage.
C25_HelloScenario ==
  \A e \in DOMAIN exchanges :
    LET x == exchanges[e]
        promptTokens == simulateUserMessageTokens(DEFAULT_SYSTEM_PROMPT)
                          + simulateUserMessageTokens(Hello)
        completionTokens == simulateUserMessageTokens(x.loc.currentVisibleContent)
    IN (/\ x.terminal = "completed"
        /\ x.pc = "done"
        /\ x.response \in {<<NdDelta(HiThe), NdDelta(Re) \o NdDoneNoUsage>>,
                            <<SseDelta(HiThe), SseDelta(Re) \o SseFinishNoUsage>>}) =>
         /\ dbMessages[assistantMessageId(e)].content = <<"H", "i", "t", "h", "e", "r", "e", "!">>
         /\ x.loc.currentThinkingContent = <<>>
         /\ dbMessages[assistantMessageId(e)].tokens =
              Tokens(promptTokens, completionTokens, promptTokens + completionTokens)

\* C29: while an exchange is streaming, every change of the visible content of
\* its live message appends to the previous value, and after a step of the
\* exchange the content is what the fragments received so far add up to, in
\* their order.
C29_ContentOnlyGrows ==
  [][\A e \in DOMAIN exchanges :
       (exchanges[e].terminal = "none" /\ exchanges'[e].terminal = "none") =>
         \A i \in 1..Len(messages), j \in 1..Len(messages') :
           (messages[i].id = assistantMessageId(e) /\ messages'[j].id = assistantMessageId(e)) =>
             LET old == messages[i].content
                 new == messages'[j].content
             IN /\ Len(old) <= Len(new)
                /\ SubSeq(new, 1, Len(old)) = old
                /\ exchanges'[e].loc # exchanges[e].loc =>
                     new = exchanges'[e].loc.currentVisibleContent]_vars

\* C30: an exchange starts with the splitter in Visible, and while it is
\* streaming, after a step that has put fragments through the splitter the
\* isThinking flag of the live message tells whether the splitter is in Thinking.
C30_ThinkingFlagFollowsSplitter ==
  [][\A e \in DOMAIN exchanges' :
       /\ e \notin DOMAIN exchanges => ~exchanges'[e].loc.inThinkBlock
       /\ (/\ e \in DOMAIN exchanges
           /\ exchanges'[e].terminal = "none"
           /\ exchanges'[e].pc = "read"
           /\ exchanges'[e].loc # exchanges[e].loc) =>
            \A j \in 1..Len(messages') :
              messages'[j].id = assistantMessageId(e) =>
                messages'[j].isThinking = exchanges'[e].loc.inThinkBlock]_vars

(***************************************************************************)
(* Two sends in one conversation: the user stops the first exchange and    *)
(* sends again while the first call of handleSendMessage is still          *)
(* suspended in one of its awaits.                                         *)
(***************************************************************************)
\* handleSendMessage called again in the same visit
SendAgain == Send(MaxSends)

\* the responses of these exchanges: a provider total of 50, or counts that add
\* up to 46
ResendBodies ==
  {<<SseDelta(<<"a">>) \o SseFinishTotal>>,
   <<SseDelta(<<"a">>), SseDelta(<<"b">>) \o SseFinish \o SseDone>>}

InitResend ==
  /\ providerType = OPENAI
  /\ SessionStart
  /\ SplitterIdle
  /\ DecoderIdle
  /\ QueueIdle

NextResend ==
  \/ SendAgain
  \/ \E e \in ExchangeIds : ConvResolve(e)
  \/ \E e \in ExchangeIds : UserMsgResolve(e)
  \/ \E e \in ExchangeIds : AsstMsgResolve(e)
  \/ \E e \in ExchangeIds, body \in ResendBodies : FetchResolve(e, "ok", body)
  \/ \E e \in ExchangeIds, closed \in BOOLEAN : ReadResolve(e, closed)
  \/ \E e \in ExchangeIds : TokenCountResolve(e)
  \/ \E e \in ExchangeIds : UpdateMessageResolve(e)
  \/ \E e \in ExchangeIds : UpdateConversationResolve(e)
  \/ \E e \in ExchangeIds, hidden \in BOOLEAN : UpdateMessageErrorResolve(e, hidden)
  \/ StopGeneration

SpecResend == InitResend /\ [][NextResend]_vars

\* C24: the stored token count of a conversation never decreases, and when no
\* exchange is running it is the sum of the totals the conversation's exchanges
\* have computed, each added once.
C24_CumulativeTokenCount ==
  [][\A c \in ConversationIds :
       LET total(e) == IF exchanges'[e].conv = c
                         THEN exchanges'[e].loc.finalTokenData.total ELSE 0
           sum[n \in 0..Len(exchanges')] == IF n = 0 THEN 0 ELSE sum[n - 1] + total(n)
       IN /\ dbConversations'[c].totalTokenCount >= dbConversations[c].totalTokenCount
          /\ (\A e \in DOMAIN exchanges' : exchanges'[e].pc = "done") =>
               dbConversations'[c].totalTokenCount = sum[Len(exchanges')]]_vars

\* C28: an exchange that is in flight and has not been cancelled is the one
\* the abort-controller reference points to, and the session is loading: no
\* step of an earlier exchange clears the reference or the loading flag.
C28_ControllerOfStreamingExchange ==
  \A e \in DOMAIN exchanges :
    Active(exchanges, e) => (abortControllerRef = e /\ isLoading)

(***************************************************************************)
(* Drains of a saved queue that holds several messages.                    *)
(***************************************************************************)
\* the saved queue after MaxDrainItems offline sends into the stored
\* conversation, each message with the retry count its earlier attempts left
SavedQueues ==
  {q \in [1..MaxDrainItems ->
            [id : QueuedIds, conversationId : {StoredConversation}, content : {Hello},
             retries : {0, MaxRetries}]] :
     \A i \in 1..MaxDrainItems : q[i].id = MaxItems + i}

\* the page has been loaded online with such a queue saved: App and the
\* indicator have read it on mount
InitDrain ==
  /\ isOnline = TRUE
  /\ \E q \in SavedQueues :
       /\ localStorageQueue = saveOfflineQueue(q)
       /\ offlineQueue = [r \in Readers |-> IF r = Manager THEN <<>> ELSE q]
  /\ isProcessingQueue = [r \in Readers |-> FALSE]
  /\ hookMounted = [r \in Readers |-> r # Manager]
  /\ retryingIds = {}
  /\ inFlight = {}
  /\ nextQueuedId = MaxItems + 1
  /\ retryEvents = [id \in QueuedIds |-> [success |-> 0, failed |-> 0]]
  /\ offlineSends = <<>>
  /\ removedIds = {}
  /\ providerType = OLLAMA
  /\ SessionStored
  /\ SplitterIdle
  /\ DecoderIdle

NextDrain ==
  \/ NetworkChange
  \/ \E r \in Readers : AutoRetry(r)
  \/ \E call \in inFlight, ok \in BOOLEAN : RetrySettle(call, ok)

SpecDrain == InitDrain /\ [][NextDrain]_vars

\* the retryMessage calls of the drain of instance r that have not settled
DrainCalls(r) == {c \in inFlight : c.reader = r /\ c.drain}

\* C15: retryAll of an instance starts one attempt for every message its queue
\* holds; an attempt that settles, failed or not, takes no other attempt out of
\* flight; and the drain is over (isProcessingQueue back to false) only when
\* none of its attempts is still pending.
C15_RetryAllSettles ==
  [][\A r \in Readers :
       /\ (~isProcessingQueue[r] /\ isProcessingQueue'[r]) =>
            \A id \in Ids(offlineQueue[r]) : Call(r, id, TRUE) \in inFlight'
       /\ Cardinality(DrainCalls(r) \ inFlight') <= 1
       /\ (isProcessingQueue[r] /\ ~isProcessingQueue'[r]) =>
            {c \in inFlight' : c.reader = r /\ c.drain} = {}]_vars

\* a drain of two messages in which one attempt has failed (its retry count is
\* up by one) while the other is still pending
C15_Witness ==
  \E r \in Readers :
    /\ isProcessingQueue[r]
    /\ Cardinality(DrainCalls(r)) = 1
    /\ \E c \in DrainCalls(r) :
         \E i \in 1..Len(offlineQueue[r]) :
           /\ offlineQueue[r][i].id # c.id
           /\ offlineQueue[r][i].retries = 1

\* the step queues a message (addToQueue has handed out an id)
Queues == nextQueuedId' = nextQueuedId + 1

\* C13: a send made while offline starts no exchange and stores no message;
\* the step that queues it appends exactly one entry with retries 0 to App's
\* queue and saves the queue, the entry names a conversation that is already
\* persisted (the current one, or the one the send has just created), and no
\* message is shown with error content.
C13_OfflineSendQueues ==
  [][Queues =>
       LET entry == offlineQueue'[App][Len(offlineQueue'[App])]
       IN /\ exchanges' = exchanges
          /\ dbMessages' = dbMessages
          /\ offlineQueue'[App] = Append(offlineQueue[App], entry)
          /\ localStorageQueue' = saveOfflineQueue(offlineQueue'[App])
          /\ entry.retries = 0
          /\ entry.content = Hello
          /\ entry.conversationId = currentConversationId'
          /\ dbConversations[entry.conversationId].exists
          /\ dbConversations' = dbConversations
          /\ \A i \in 1..Len(messages') :
               messages'[i].role # "assistant" /\ ~IsErrorContent(messages'[i].content)]_vars

\* an offline send with no conversation open has created and persisted one and
\* queued its message for it
C13_Witness ==
  /\ ~isOnline
  /\ Len(offlineQueue[App]) = 1
  /\ offlineQueue[App][1].retries = 0
  /\ offlineQueue[App][1].conversationId = offlineConversationId(1)
  /\ currentConversationId = offlineConversationId(1)
  /\ dbConversations[offlineConversationId(1)].exists
  /\ localStorageQueue.queue = offlineQueue[App]
  /\ exchanges = <<>>

\* C14: once a queued message has been sent successfully by a retry, the store
\* holds a user message with its content and an assistant reply, as after an
\* online send of the same text.
C14_DeferredPathConverges ==
  \A id \in QueuedIds :
    retryEvents[id].success >= 1 =>
      /\ \E m \in MessageIds :
           /\ dbMessages[m].exists
           /\ dbMessages[m].role = "user"
           /\ dbMessages[m].content = Hello
      /\ \E m \in MessageIds : dbMessages[m].exists /\ dbMessages[m].role = "assistant"

\* C16: a message the user has removed (remove or clear) is never again in the
\* saved queue nor in the queue of the instance it was removed through.
C16_RemovedStaysRemoved ==
  \A id \in removedIds :
    /\ id \notin Ids(localStorageQueue.queue)
    /\ hookMounted[Manager] => id \notin Ids(offlineQueue[Manager])

\* C17: a step that dispatches a retry event for a message leaves that message
\* in no mounted instance's queue and not in the saved queue; no message gets
\* more than one event; and a retry that takes a message out of the saved queue
\* dispatches an event for it.
C17_OneSignalPerDeparture ==
  [][\A id \in QueuedIds :
       LET signalled == retryEvents'[id] # retryEvents[id]
           settles == \E c \in inFlight : c.id = id /\ c \notin inFlight'
       IN /\ signalled =>
               /\ id \notin Ids(localStorageQueue'.queue)
               /\ \A r \in Readers : hookMounted'[r] => id \notin Ids(offlineQueue'[r])
          /\ retryEvents'[id].success + retryEvents'[id].failed <= 1
          /\ (/\ settles
              /\ id \in Ids(localStorageQueue.queue)
              /\ id \notin Ids(localStorageQueue'.queue)
              /\ localStorageQueue'.present
              /\ nextQueuedId' = nextQueuedId) =>
               retryEvents'[id].success + retryEvents'[id].failed >= 1]_vars

\* C26: the auto-retry of an instance (App's or the indicator's) starts a drain
\* only when the network is online and the saved queue is not empty, and it
\* posts only messages the saved queue still holds: a queue emptied before the
\* timer fires means no retry request.
C26_AutoDrainNeedsQueue ==
  [][\A r \in {App, Indicator} :
       (~isProcessingQueue[r] /\ isProcessingQueue'[r]) =>
         /\ isOnline
         /\ localStorageQueue.queue # <<>>
         /\ \A c \in inFlight' \ inFlight : c.id \in Ids(localStorageQueue.queue)]_vars

(***************************************************************************)
(* Offline sends with messages already queued.                             *)
(***************************************************************************)
\* the page has been loaded offline with a queue saved by an earlier visit:
\* App and the indicator have read it on mount, and one more message can be sent
InitEnqueue ==
  /\ isOnline = FALSE
  /\ \E q \in SavedQueues :
       /\ localStorageQueue = saveOfflineQueue(q)
       /\ offlineQueue = [r \in Readers |-> IF r = Manager THEN <<>> ELSE q]
  /\ isProcessingQueue = [r \in Readers |-> FALSE]
  /\ hookMounted = [r \in Readers |-> r # Manager]
  /\ retryingIds = {}
  /\ inFlight = {}
  /\ nextQueuedId = 1
  /\ retryEvents = [id \in QueuedIds |-> [success |-> 0, failed |-> 0]]
  /\ offlineSends = <<>>
  /\ removedIds = {}
  /\ providerType = OLLAMA
  /\ SessionStored
  /\ SplitterIdle
  /\ DecoderIdle

NextEnqueue ==
  \/ NetworkChange
  \/ SendOffline
  \/ \E id \in QueuedIds : removeFromQueue(id)
  \/ clearQueue
  \/ \E id \in QueuedIds : retryMessage(id)
  \/ \E call \in inFlight, ok \in BOOLEAN : RetrySettle(call, ok)
  \/ ManagerOpen
  \/ ManagerClose

SpecEnqueue == InitEnqueue /\ [][NextEnqueue]_vars

\* C27: a step that queues a message leaves the saved queue equal to the saved
\* queue before it with one entry appended, the new message with retries 0:
\* the messages already saved, their retry counters and their order are kept.
C27_EnqueueFrame ==
  [][nextQueuedId' # nextQueuedId =>
       LET old == localStorageQueue.queue
           new == localStorageQueue'.queue
       IN /\ localStorageQueue'.present
          /\ Len(new) = Len(old) + 1
          /\ new[Len(new)].id = nextQueuedId
          /\ new[Len(new)].retries = 0
          /\ \A i \in 1..Len(old) : new[i] = old[i]]_vars

\* C36: once an exchange has been cancelled its handler calls reader.read() no
\* more: no step of a cancelled exchange leaves it waiting on a new read of the
\* response body.
C36_NoReadAfterCancel ==
  [][\A e \in DOMAIN exchanges :
       exchanges[e].terminal \in Cancellations =>
         ~(/\ exchanges'[e].pc = "read"
           /\ (exchanges[e].pc # "read" \/ exchanges'[e].body # exchanges[e].body))]_vars

(***************************************************************************)
(* A send whose awaits all settle, store writes included.                  *)
(***************************************************************************)
\* addConversation / updateConversation (737, 743) or addMessage (776, 803)
\* rejects: the call is outside the try block, so the handler's promise rejects
\* with neither catch nor finally run; the record of the failed add is not stored
StoreWriteFail(e) ==
  /\ e \in DOMAIN exchanges
  /\ exchanges[e].pc \in {"conv", "userMsg", "asstMsg"}
  /\ LET x == exchanges[e]
         w == [World EXCEPT !.exchanges[e].pc = "done"]
     IN Commit(IF x.pc = "conv"
                 THEN [w EXCEPT !.dbConversations[x.conv].exists =
                                   IF x.newConversation THEN FALSE ELSE @]
               ELSE IF x.pc = "userMsg"
                 THEN [w EXCEPT !.dbMessages[userMessageId(e)] = NoMessage]
               ELSE [w EXCEPT !.dbMessages[assistantMessageId(e)] = NoMessage])

\* a pending await of the send handler settles
AwaitSettles ==
  \/ \E e \in ExchangeIds : ConvResolve(e)
  \/ \E e \in ExchangeIds : UserMsgResolve(e)
  \/ \E e \in ExchangeIds : AsstMsgResolve(e)
  \/ \E e \in ExchangeIds : StoreWriteFail(e)
  \/ \E e \in ExchangeIds, outcome \in {"ok", "status", "network", "nobody"},
        body \in Bodies(providerType) : FetchResolve(e, outcome, body)
  \/ \E e \in ExchangeIds, errorText \in ErrorTexts : ErrorTextResolve(e, errorText)
  \/ \E e \in ExchangeIds : ReadFail(e)
  \/ \E e \in ExchangeIds, closed \in BOOLEAN : ReadResolve(e, closed)
  \/ \E e \in ExchangeIds : TokenCountResolve(e)
  \/ \E e \in ExchangeIds : UpdateMessageResolve(e)
  \/ \E e \in ExchangeIds : UpdateConversationResolve(e)
  \/ \E e \in ExchangeIds, hidden \in BOOLEAN : UpdateMessageErrorResolve(e, hidden)

NextSend ==
  \/ SendMessage
  \/ AwaitSettles
  \/ StopGeneration

\* the component stays mounted and every await settles in the end
SpecSend == InitSession /\ [][NextSend]_vars /\ WF_vars(AwaitSettles)

\* C32: whenever the loading flag is set it is cleared again later.
C32_LoadingFlagCleared == isLoading ~> ~isLoading

\* C38: when the provider request of an exchange has been issued, its user
\* message and its placeholder are both in the store, the placeholder's
\* timestamp is later than the user message's, and the stored messages of the
\* conversation list the user message before the assistant message.
C38_StoredBeforeRequest ==
  \A e \in DOMAIN exchanges :
    exchanges[e].signal # Null =>
      LET u == dbMessages[userMessageId(e)]
          a == dbMessages[assistantMessageId(e)]
          listed == getMessagesForConversation(exchanges[e].conv)
      IN /\ u.exists /\ a.exists
         /\ u.timestamp < a.timestamp
         /\ \E i, j \in 1..Len(listed) :
              /\ i < j
              /\ listed[i].id = userMessageId(e)
              /\ listed[j].id = assistantMessageId(e)

C38_Witness ==
  \E e \in DOMAIN exchanges :
    /\ exchanges[e].pc = "fetch"
    /\ exchanges[e].signal # Null
    /\ dbMessages[userMessageId(e)].timestamp = SendTime(e)
    /\ dbMessages[assistantMessageId(e)].timestamp = SendTime(e) + 1
    /\ Len(getMessagesForConversation(exchanges[e].conv)) = 2

\* C31: retry(id) and retryAll() tell their caller about a failed send only
\* through the retry counter and the success / failure events: no call made
\* from the queue modal has rejected into its handler
C31_RetryNeverRejects == retryRejected = {}

(***************************************************************************)
(* The saved queue while the network stays online and the user does        *)
(* nothing: the 2 s timer of the auto-retry effect fires and every fetch    *)
(* settles, so a step that can be taken is taken.                           *)
(***************************************************************************)
NextOnline ==
  \/ \E r \in Readers : AutoRetry(r)
  \/ \E call \in inFlight, ok \in BOOLEAN : RetrySettle(call, ok)

SpecOnline == InitDrain /\ [][NextOnline]_vars /\ WF_vars(NextOnline)

\* no instance holds a message, none is saved and no attempt is pending
Drained ==
  /\ \A r \in Readers : offlineQueue[r] = <<>>
  /\ localStorageQueue.queue = <<>>
  /\ inFlight = {}

\* C33: while the network stays online every queued message leaves the queue
\* without user action, after a successful send or when its retry budget is
\* used up: the drains come to an end with the queue empty
C33_QueueDrains == <>[]Drained

\* the drains are over, one message having been sent and one given up
C33_Witness ==
  /\ Drained
  /\ \E id \in QueuedIds : retryEvents[id].success > 0
  /\ \E id \in QueuedIds : retryEvents[id].failed > 0 /\ retryEvents[id].success = 0

(***************************************************************************)
(* Deleting conversations: a visit that starts with a stored conversation   *)
(* shown, in which the user sends online and offline, stops a send and      *)
(* deletes conversations from the sidebar.                                  *)
(***************************************************************************)
InitDelete ==
  /\ providerType = OLLAMA
  /\ SessionStored
  /\ SplitterIdle
  /\ DecoderIdle
  /\ QueueIdle

NextDelete ==
  \/ NetworkChange
  \/ SendOffline
  \/ OfflineConvResolve
  \/ SendMessage
  \/ \E e \in ExchangeIds : ConvResolve(e)
  \/ \E e \in ExchangeIds : UserMsgResolve(e)
  \/ \E e \in ExchangeIds : AsstMsgResolve(e)
  \/ \E e \in ExchangeIds : FetchResolve(e, "network", <<>>)
  \/ \E e \in ExchangeIds, hidden \in BOOLEAN : UpdateMessageErrorResolve(e, hidden)
  \/ StopGeneration
  \/ \E conv \in ConversationIds : DeleteConversation(conv)
  \/ DeleteResolve
  \/ RunEffect
  \/ EffectResolve

SpecDelete == InitDelete /\ [][NextDelete]_vars

\* C35: deleting a conversation removes it together with all its messages: no
\* stored message refers to a conversation that is not in the store
C35_NoMessageOfDeletedConversation ==
  \A m \in MessageIds :
    dbMessages[m].exists => dbConversations[dbMessages[m].conversationId].exists

\* the queued messages: the saved queue and the state of every hook instance
QueuedMessages ==
  UNION ({{localStorageQueue.queue[i] : i \in 1..Len(localStorageQueue.queue)}}
         \cup {{offlineQueue[r][i] : i \in 1..Len(offlineQueue[r])} : r \in Readers})

\* C37: after any offline sends and deletions, every queued message's
\* conversationId is the id of a conversation that is in the store
C37_QueuedConversationExists ==
  \A msg \in QueuedMessages : dbConversations[msg.conversationId].exists

(***************************************************************************)
(* The provider of a conversation: the page is loaded with the provider    *)
(* type saved in localStorage and a conversation of an earlier visit in    *)
(* the sidebar, created with either provider.                              *)
(***************************************************************************)
InitProvider ==
  /\ providerType \in ProviderTypes
  /\ isMounted = TRUE
  /\ isLoading = FALSE
  /\ abortControllerRef = Null
  /\ controllers = [c \in ExchangeIds |-> [aborted |-> FALSE, reason |-> NoReason]]
  /\ messages = <<>>
  /\ currentConversationId = Null
  /\ conversationsList =
       [c \in ConversationIds |-> [listed |-> c = StoredConversation, totalTokenCount |-> 0]]
  /\ dbConversations =
       [c \in ConversationIds |-> [exists |-> c = StoredConversation, totalTokenCount |-> 0]]
  /\ dbMessages = [m \in MessageIds |-> NoMessage]
  /\ exchanges = <<>>
  /\ effectPending = FALSE
  /\ effectLoads = <<>>
  /\ convLoads = <<>>
  /\ convDeletes = <<>>
  /\ \E stored \in ProviderTypes :
       conversationProvider =
         [c \in ConversationIds |-> IF c = StoredConversation THEN stored ELSE NoProvider]
  /\ retryRejected = {}
  /\ WorkerIdle
  /\ SplitterIdle
  /\ DecoderIdle
  /\ QueueIdle

NextProvider ==
  \/ \E newType \in ProviderTypes : ProviderTypeChange(newType)
  \/ \E conv \in ConversationIds : LoadConversation(conv)
  \/ LoadResolve
  \/ NewChat
  \/ RunEffect
  \/ EffectResolve
  \/ SendMessage
  \/ \E e \in ExchangeIds : ConvResolve(e)
  \/ \E e \in ExchangeIds : UserMsgResolve(e)
  \/ \E e \in ExchangeIds : AsstMsgResolve(e)
  \/ \E e \in ExchangeIds : FetchResolve(e, "network", <<>>)
  \/ \E e \in ExchangeIds, hidden \in BOOLEAN : UpdateMessageErrorResolve(e, hidden)

SpecProvider == InitProvider /\ [][NextProvider]_vars

\* C34: every request issued for a conversation goes to the provider type (and
\* with it the base URL) stored on that conversation, whatever the global
\* setting was when the request was built
C34_RequestTargetsStoredProvider ==
  \A e \in DOMAIN exchanges :
    exchanges[e].signal # Null =>
      exchanges[e].provider = conversationProvider[exchanges[e].conv]

(***************************************************************************)
(* The service worker alone: pages post QUEUE_MESSAGE messages and the      *)
(* browser raises 'chat-queue' sync events.                                 *)
(***************************************************************************)
InitWorker ==
  /\ SplitterIdle
  /\ DecoderIdle
  /\ QueueIdle
  /\ SessionIdle
  /\ WorkerIdle

NextWorker ==
  \/ \E data \in WorkerPayloads : QueueMessage(data)
  \/ SyncEvent
  \/ SyncOpenResolve

SpecWorker == InitWorker /\ [][NextWorker]_vars

\* the stored item with this id, as a set
WorkerItem(store, id) == {store[k] : k \in {j \in 1..Len(store) : store[j].id = id}}

====
